---- MODULE Spec2Model ----
(***************************************************************************)
(* Model of the sequence-diagram tool of src/app/page.tsx: the line        *)
(* parser parse(code) and the renderer buildSvg(d, o, l).                  *)
(*                                                                         *)
(* Text is modelled character by character: a JavaScript string is a       *)
(* sequence of one-character strings, and every regular expression of the  *)
(* source is an operator that matches as the expression does (greedy       *)
(* quantifiers, ordered alternation, backtracking where it can change the  *)
(* result).  An optional value (string | undefined) is a sequence of       *)
(* length 0 or 1.  Geometry is kept in hundredths of a pixel so that the   *)
(* halves and the 0.62 factor of the source stay exact integers.           *)
(***************************************************************************)
EXTENDS Integers, Sequences, FiniteSets, TLC

VARIABLES
    code,          \* parse's argument, as code.split("\n"): a sequence of lines
    i,             \* index of the next line of the for loop of parse
    participants,  \* parse: const participants
    messages,      \* parse: const messages
    step,          \* parse: let step
    ci,            \* parse: let ci
    title,         \* parse: let title (optional)
    threw,         \* TRUE once a statement of parse has raised
    pc,            \* "parse" | "parsed" | "rendered"
    opts,          \* buildSvg's argument o
    layout,        \* buildSvg's argument l
    svg,           \* buildSvg's result: the markup, <<>> for the empty string
    prev,          \* the results of the previous invocation (optional)
    lists,         \* identity of the two arrays the running parse pushes to
    returned,      \* the Diagrams returned so far: the arrays each refers to,
                   \* its contents when returned and its contents now
    mounted,       \* SequenceTool: useState mounted
    isMobile,      \* SequenceTool: useState isMobile
    showCode,      \* SequenceTool: useState showCode
    showSettings,  \* SequenceTool: useState showSettings
    copied,        \* SequenceTool: useState copied
    hasFit,        \* SequenceTool: useState hasFit
    fitActive,     \* SequenceTool: useState fitActive
    zoom,          \* SequenceTool: useState zoom, in thousandths
    pinch,         \* onTouchStart: startZoomVal while startPinchDist is not null (optional)
    panelFrame,    \* an animation frame requested by the panel effect is pending
    viewport,      \* <<window.innerWidth, window.innerHeight>>
    storage,       \* localStorage: the optional values of the three keys
    synced,        \* the persist effects have run for the committed state
    firstWritten,  \* per key, the first setItem: the value replaced and the value written
    clipWrites,    \* clipboard writes whose promise is pending
    timers,        \* pending setTimeout(() => setCopied(false), 1500)
    events         \* the input events handled since the mount

\* the state of the component function SequenceTool and of its environment
shell == <<mounted, isMobile, showCode, showSettings, copied, hasFit, fitActive, zoom,
           pinch, panelFrame, viewport, storage, synced, firstWritten, clipWrites,
           timers, events>>

vars == <<code, i, participants, messages, step, ci, title, threw, pc, opts, layout, svg, prev,
          lists, returned, shell>>

\* ------------------------------------------------------------------ values

Undefined == <<>>
Some(x) == <<x>>
IsDefined(v) == v # <<>>
Get(v) == v[1]

\* JavaScript's  a ?? b  on an optional a
OrElse(a, b) == IF IsDefined(a) THEN Get(a) ELSE b

Max(a, b) == IF a >= b THEN a ELSE b

\* ------------------------------------------------------------- characters

LowerCase == <<"a","b","c","d","e","f","g","h","i","j","k","l","m",
               "n","o","p","q","r","s","t","u","v","w","x","y","z">>
UpperCase == <<"A","B","C","D","E","F","G","H","I","J","K","L","M",
               "N","O","P","Q","R","S","T","U","V","W","X","Y","Z">>
Digits == <<"0","1","2","3","4","5","6","7","8","9">>

\* \s of the regular expressions and the white space of String.trim
IsSpace(c) == c \in {" ", "\t"}
\* \d
IsDigit(c) == \E k \in DOMAIN Digits : Digits[k] = c
\* \w
IsWord(c) == \/ \E k \in DOMAIN LowerCase : LowerCase[k] = c
             \/ \E k \in DOMAIN UpperCase : UpperCase[k] = c
             \/ IsDigit(c)
             \/ c = "_"
\* case folding of the i flag
ToLower(c) == IF \E k \in DOMAIN UpperCase : UpperCase[k] = c
              THEN LowerCase[CHOOSE k \in DOMAIN UpperCase : UpperCase[k] = c]
              ELSE c
DigitVal(c) == (CHOOSE k \in DOMAIN Digits : Digits[k] = c) - 1

\* ---------------------------------------------------------------- strings

Drop(s, n) == SubSeq(s, n + 1, Len(s))
Take(s, n) == SubSeq(s, 1, n)

StartsWith(s, p) == Len(s) >= Len(p) /\ Take(s, Len(p)) = p
\* p is given in lower case
StartsWithCI(s, p) == /\ Len(s) >= Len(p)
                      /\ \A k \in 1..Len(p) : ToLower(s[k]) = p[k]

\* length of the longest prefix of s whose characters are white space
SpaceRun(s) == IF \A k \in 1..Len(s) : IsSpace(s[k]) THEN Len(s)
               ELSE (CHOOSE k \in 1..Len(s) :
                        ~IsSpace(s[k]) /\ \A j \in 1..(k-1) : IsSpace(s[j])) - 1
NonSpaceRun(s) == IF \A k \in 1..Len(s) : ~IsSpace(s[k]) THEN Len(s)
                  ELSE (CHOOSE k \in 1..Len(s) :
                           IsSpace(s[k]) /\ \A j \in 1..(k-1) : ~IsSpace(s[j])) - 1
WordRun(s) == IF \A k \in 1..Len(s) : IsWord(s[k]) THEN Len(s)
              ELSE (CHOOSE k \in 1..Len(s) :
                       ~IsWord(s[k]) /\ \A j \in 1..(k-1) : IsWord(s[j])) - 1
DigitRun(s) == IF \A k \in 1..Len(s) : IsDigit(s[k]) THEN Len(s)
               ELSE (CHOOSE k \in 1..Len(s) :
                        ~IsDigit(s[k]) /\ \A j \in 1..(k-1) : IsDigit(s[j])) - 1

SkipSpaces(s) == Drop(s, SpaceRun(s))

\* String.prototype.trim
trim(s) ==
    IF \A k \in 1..Len(s) : IsSpace(s[k]) THEN <<>>
    ELSE LET a == CHOOSE k \in 1..Len(s) :
                      ~IsSpace(s[k]) /\ \A j \in 1..(k-1) : IsSpace(s[j])
             b == CHOOSE k \in 1..Len(s) :
                      ~IsSpace(s[k]) /\ \A j \in (k+1)..Len(s) : IsSpace(s[j])
         IN  SubSeq(s, a, b)

\* parseInt on a string of decimal digits
RECURSIVE parseInt(_)
parseInt(ds) == IF ds = <<>> THEN 0
                ELSE 10 * parseInt(Take(ds, Len(ds) - 1)) + DigitVal(ds[Len(ds)])

\* ------------------------------------------------------------------ parser

\* PAL[k] of the source is PAL[k + 1] here (sequences start at 1)
PAL == <<"#ef4444","#f97316","#eab308","#22c55e","#14b8a6","#06b6d4",
         "#3b82f6","#8b5cf6","#ec4899","#f43f5e","#84cc16","#0891b2">>

\* "Sequence Diagram"
DEFAULT_DIAGRAM_TITLE ==
    <<"S","e","q","u","e","n","c","e"," ","D","i","a","g","r","a","m">>

K_title == <<"t","i","t","l","e",":">>
K_participant == <<"p","a","r","t","i","c","i","p","a","n","t">>
K_as == <<"a","s">>

\* the grave accent U+0060, which a string of this language cannot hold
BackTick == "U+0060"

\* the alternatives of the skip expression  /^(%%|sequenceDiagram|autonumber|---|BBB)/
\* (B the grave accent)
SkipMarkers ==
    { <<"%","%">>,
      <<"s","e","q","u","e","n","c","e","D","i","a","g","r","a","m">>,
      <<"a","u","t","o","n","u","m","b","e","r">>,
      <<"-","-","-">>,
      <<BackTick, BackTick, BackTick>> }

\* !l || (the skip expression).test(l)
IsSkipLine(l) == l = <<>> \/ \E m \in SkipMarkers : StartsWith(l, m)

\* l.match(/^title:\s*(.+)$/i): the optional capture group 1.
\* \s* is greedy and gives one character back when nothing else is left
\* for (.+).
matchTitle(l) ==
    IF ~StartsWithCI(l, K_title) THEN Undefined
    ELSE LET r == Drop(l, Len(K_title))
             g == SkipSpaces(r)
         IN  IF r = <<>> THEN Undefined
             ELSE IF g # <<>> THEN Some(g)
             ELSE Some(<<r[Len(r)]>>)

\* the tail (?:\s+as\s+(.+))?$ of the participant expression, on the text r
\* that follows the id: [ok, label]
matchAlias(r) ==
    IF r = <<>> THEN [ok |-> TRUE, label |-> Undefined]
    ELSE IF ~IsSpace(r[1]) THEN [ok |-> FALSE, label |-> Undefined]
    ELSE LET r3 == SkipSpaces(r)
             r4 == Drop(r3, Len(K_as))
             r5 == SkipSpaces(r4)
         IN  IF ~StartsWithCI(r3, K_as) \/ r4 = <<>> \/ ~IsSpace(r4[1])
             THEN [ok |-> FALSE, label |-> Undefined]
             ELSE IF r5 # <<>> THEN [ok |-> TRUE, label |-> Some(r5)]
             ELSE IF Len(r4) >= 2 THEN [ok |-> TRUE, label |-> Some(<<r4[Len(r4)]>>)]
             ELSE [ok |-> FALSE, label |-> Undefined]

\* l.match(/^participant\s+(\S+)(?:\s+as\s+(.+))?$/i): optional [id, label]
matchParticipant(l) ==
    IF ~StartsWithCI(l, K_participant) THEN Undefined
    ELSE LET r  == Drop(l, Len(K_participant))
             r1 == SkipSpaces(r)
             n  == NonSpaceRun(r1)
             al == matchAlias(Drop(r1, n))
         IN  IF r = <<>> \/ ~IsSpace(r[1]) \/ n = 0 \/ ~al.ok THEN Undefined
             ELSE Some([id |-> Take(r1, n), label |-> al.label])

\* \s*(\w+):\s*(.*)$ on the text r that follows the arrow token:
\* optional [tId, rawText]
matchTarget(r) ==
    LET r2 == SkipSpaces(r)
        n  == WordRun(r2)
        r3 == Drop(r2, n)
    IN  IF n = 0 \/ r3 = <<>> \/ r3[1] # ":" THEN Undefined
        ELSE Some([tId |-> Take(r2, n), rawText |-> SkipSpaces(Drop(r3, 1))])

\* the alternatives of (-->>|->>|-->|->), in the order they are tried
ArrowTokens == << <<"-","-",">",">">>, <<"-",">",">">>, <<"-","-",">">>, <<"-",">">> >>

\* l.match(/^(\w+)\s*(-->>|->>|-->|->)\s*(\w+):\s*(.*)$/):
\* optional [fId, arr, tId, rawText]; the first alternative after which the
\* rest of the expression matches is the one taken
matchMessage(l) ==
    LET n  == WordRun(l)
        r1 == SkipSpaces(Drop(l, n))
        Ok(k) == /\ StartsWith(r1, ArrowTokens[k])
                 /\ IsDefined(matchTarget(Drop(r1, Len(ArrowTokens[k]))))
    IN  IF n = 0 \/ ~\E k \in DOMAIN ArrowTokens : Ok(k) THEN Undefined
        ELSE LET k == CHOOSE k \in DOMAIN ArrowTokens :
                          Ok(k) /\ \A j \in 1..(k-1) : ~Ok(j)
                 t == Get(matchTarget(Drop(r1, Len(ArrowTokens[k]))))
             IN  Some([fId |-> Take(l, n), arr |-> ArrowTokens[k],
                       tId |-> t.tId, rawText |-> t.rawText])

\* length of a match of /<br\s*\/?>/i at the start of s, 0 when there is none
BrLen(s) ==
    IF ~(Len(s) >= 3 /\ s[1] = "<" /\ ToLower(s[2]) = "b" /\ ToLower(s[3]) = "r")
    THEN 0
    ELSE LET r == Drop(s, 3)
             k == SpaceRun(r)
             t == Drop(r, k)
         IN  IF Len(t) >= 2 /\ t[1] = "/" /\ t[2] = ">" THEN 3 + k + 2
             ELSE IF Len(t) >= 1 /\ t[1] = ">" THEN 3 + k + 1
             ELSE 0

\* rawText.replace(/<br\s*\/?>/gi, " ")
RECURSIVE replaceBr(_)
replaceBr(s) ==
    IF s = <<>> THEN <<>>
    ELSE IF BrLen(s) > 0 THEN <<" ">> \o replaceBr(Drop(s, BrLen(s)))
    ELSE <<s[1]>> \o replaceBr(Tail(s))

\* matchNumPfx with \s* in place of \s+: no whitespace needed after the dot
matchNumPfxNoSpace(cleaned) ==
    LET n == DigitRun(cleaned)
        r == Drop(cleaned, n)
    IN  IF n = 0 \/ Len(r) < 1 \/ r[1] # "." THEN Undefined
        ELSE Some([digits |-> Take(cleaned, n), rest |-> SkipSpaces(Drop(r, 1))])

\* cleaned.match(/^(\d+)\.\s+([\s\S]*)$/): optional [digits, rest]
matchNumPfx(cleaned) ==
    LET n == DigitRun(cleaned)
        r == Drop(cleaned, n)
    IN  IF n = 0 \/ Len(r) < 2 \/ r[1] # "." \/ ~IsSpace(r[2]) THEN Undefined
        ELSE Some([digits |-> Take(cleaned, n), rest |-> SkipSpaces(Drop(r, 1))])

\* s.replace(/\[(.+?)\]/g, "($1)"): the lazy group ends at the first "]" that
\* leaves it at least one character
RECURSIVE replaceBrackets(_)
replaceBrackets(s) ==
    IF s = <<>> THEN <<>>
    ELSE IF s[1] = "[" /\ \E q \in 3..Len(s) : s[q] = "]"
    THEN LET q == CHOOSE q \in 3..Len(s) :
                      s[q] = "]" /\ \A j \in 3..(q-1) : s[j] # "]"
         IN  <<"(">> \o SubSeq(s, 2, q - 1) \o <<")">> \o replaceBrackets(Drop(s, q))
    ELSE <<s[1]>> \o replaceBrackets(Tail(s))

\* map.has(id)
HasP(ps, id) == \E k \in DOMAIN ps : ps[k].id = id

\* labelOrId without the fallback to the id
labelOnly(label, id) == label

\* (label ?? id) of addP, as the optional value .replace is called on
labelOrId(label, id) == Some(OrElse(label, id))

\* addP without the map.has(id) test
addPNoCheck(st, id, label) ==
    [st EXCEPT
       !.participants = Append(@, [id |-> id,
                                   color |-> PAL[(st.ci % Len(PAL)) + 1],
                                   label |-> replaceBrackets(OrElse(label, id))]),
       !.ci = @ + 1]

\* addP taking a palette slot for every call, registered id or not
addPCountsAll(st, id, label) ==
    IF HasP(st.participants, id) THEN [st EXCEPT !.ci = @ + 1]
    ELSE addPNoCheck(st, id, label)

\* addP letting a later alias replace the label of a registered id
addPRelabels(st, id, label) ==
    IF HasP(st.participants, id)
    THEN IF IsDefined(label)
         THEN [st EXCEPT !.participants =
                 [k \in DOMAIN @ |->
                    IF @[k].id = id
                    THEN [@[k] EXCEPT !.label = replaceBrackets(Get(label))]
                    ELSE @[k]]]
         ELSE st
    ELSE addPNoCheck(st, id, label)

\* addP(id, label) on the locals st of parse; label is optional.
\* Calling .replace on undefined raises a TypeError.
addP(st, id, label) ==
    IF HasP(st.participants, id) THEN st
    ELSE LET lab == labelOrId(label, id)
         IN  IF ~IsDefined(lab) THEN [st EXCEPT !.threw = TRUE]
             ELSE [st EXCEPT
                     !.participants = Append(@, [id |-> id,
                                                 color |-> PAL[(st.ci % Len(PAL)) + 1],
                                                 label |-> replaceBrackets(Get(lab))]),
                     !.ci = @ + 1]

\* arrowOf deciding by the heads of the token instead of its dashes
arrowOfHeads(arr) ==
    IF Len(arr) >= 2 /\ arr[Len(arr)] = ">" /\ arr[Len(arr) - 1] = ">"
    THEN "solid" ELSE "dashed"

\* arr.startsWith("--") ? "dashed" : "solid"
arrowOf(arr) == IF StartsWith(arr, <<"-","-">>) THEN "dashed" ELSE "solid"

\* addMessage taking the display step, when there is one, as the step
addMessageByPrefix(st, mm) ==
    LET s1      == addP(addP(st, mm.fId, Undefined), mm.tId, Undefined)
        cleaned == trim(replaceBr(mm.rawText))
        numPfx  == matchNumPfx(cleaned)
        n       == IF IsDefined(numPfx) THEN parseInt(Get(numPfx).digits) ELSE st.step + 1
    IN  [s1 EXCEPT
           !.messages = Append(@,
               [from |-> mm.fId, to |-> mm.tId,
                text |-> IF IsDefined(numPfx) THEN trim(Get(numPfx).rest) ELSE cleaned,
                arrow |-> arrowOf(mm.arr),
                step |-> n,
                displayStep |-> IF IsDefined(numPfx) THEN Some(n) ELSE Undefined]),
           !.step = n]

\* addMessage registering the source only, without addP(tId)
addMessageNoTarget(st, mm) ==
    LET s1      == addP(st, mm.fId, Undefined)
        cleaned == trim(replaceBr(mm.rawText))
        numPfx  == matchNumPfx(cleaned)
    IN  [s1 EXCEPT
           !.messages = Append(@,
               [from |-> mm.fId, to |-> mm.tId,
                text |-> IF IsDefined(numPfx) THEN trim(Get(numPfx).rest) ELSE cleaned,
                arrow |-> arrowOf(mm.arr),
                step |-> st.step + 1,
                displayStep |-> IF IsDefined(numPfx)
                                THEN Some(parseInt(Get(numPfx).digits))
                                ELSE Undefined]),
           !.step = @ + 1]

\* the body of  if (mm) { ... }
addMessage(st, mm) ==
    LET s1      == addP(addP(st, mm.fId, Undefined), mm.tId, Undefined)
        cleaned == trim(replaceBr(mm.rawText))
        numPfx  == matchNumPfx(cleaned)
    IN  IF s1.threw THEN s1
        ELSE [s1 EXCEPT
               !.messages = Append(@,
                   [from |-> mm.fId, to |-> mm.tId,
                    text |-> IF IsDefined(numPfx) THEN trim(Get(numPfx).rest) ELSE cleaned,
                    arrow |-> arrowOf(mm.arr),
                    step |-> st.step + 1,
                    displayStep |-> IF IsDefined(numPfx)
                                    THEN Some(parseInt(Get(numPfx).digits))
                                    ELSE Undefined]),
               !.step = @ + 1]

\* lineKind with the message test moved before the skip test
lineKindMessageFirst(raw) ==
    LET l == trim(raw)
    IN  IF IsDefined(matchMessage(l)) THEN "message"
        ELSE IF IsSkipLine(l) THEN "skip"
        ELSE IF IsDefined(matchTitle(l)) THEN "title"
        ELSE IF IsDefined(matchParticipant(l)) THEN "participant"
        ELSE "none"

\* which branch of the loop body the raw line takes
lineKind(raw) ==
    LET l == trim(raw)
    IN  IF IsSkipLine(l) THEN "skip"
        ELSE IF IsDefined(matchTitle(l)) THEN "title"
        ELSE IF IsDefined(matchParticipant(l)) THEN "participant"
        ELSE IF IsDefined(matchMessage(l)) THEN "message"
        ELSE "none"

\* processLine keeping the first title instead of the last
processLineFirstTitle(st, raw) ==
    LET l == trim(raw)
        k == lineKind(raw)
    IN  IF k = "title"
        THEN IF IsDefined(st.title) THEN st
             ELSE [st EXCEPT !.title = Some(trim(Get(matchTitle(l))))]
        ELSE IF k = "participant"
             THEN addP(st, Get(matchParticipant(l)).id, Get(matchParticipant(l)).label)
        ELSE IF k = "message" THEN addMessage(st, Get(matchMessage(l)))
        ELSE st

\* one iteration of  for (const raw of code.split("\n"))  on the locals st
processLine(st, raw) ==
    LET l == trim(raw)
        k == lineKind(raw)
    IN  IF k = "skip" THEN st
        ELSE IF k = "title" THEN [st EXCEPT !.title = Some(trim(Get(matchTitle(l))))]
        ELSE IF k = "participant"
             THEN addP(st, Get(matchParticipant(l)).id, Get(matchParticipant(l)).label)
        ELSE IF k = "message" THEN addMessage(st, Get(matchMessage(l)))
        ELSE st

\* the locals of parse at its entry
parseLocals ==
    [participants |-> <<>>, messages |-> <<>>, step |-> 0, ci |-> 0,
     title |-> Undefined, threw |-> FALSE]

\* parse(code) as a function of the lines: the loop run to its end, or to
\* the statement that raised
RECURSIVE parseFrom(_, _)
parseFrom(st, lines) ==
    IF lines = <<>> \/ st.threw THEN st
    ELSE parseFrom(processLine(st, Head(lines)), Tail(lines))

\* { participants, messages, title }
diagramOf(st) ==
    [participants |-> st.participants, messages |-> st.messages, title |-> st.title]

\* ---------------------------------------------------------------- renderer

\* hundredths of a pixel
Px(n) == 100 * n

\* esc(s)
RECURSIVE esc(_)
esc(s) ==
    IF s = <<>> THEN <<>>
    ELSE (CASE s[1] = "&"  -> <<"&","a","m","p",";">>
            [] s[1] = "<"  -> <<"&","l","t",";">>
            [] s[1] = ">"  -> <<"&","g","t",";">>
            [] s[1] = "\"" -> <<"&","q","u","o","t",";">>
            [] OTHER       -> <<s[1]>>) \o esc(Tail(s))

\* LIFELINE_DASH[o.lifelineDash] ?? LIFELINE_DASH.circle; sw is ld.sw ?? 1.5
lifelineDashOf(name) ==
    CASE name = "dot"   -> [da |-> "2 5",  cap |-> Undefined,     sw |-> 150]
      [] name = "small" -> [da |-> "7 5",  cap |-> Undefined,     sw |-> 150]
      [] name = "long"  -> [da |-> "14 6", cap |-> Undefined,     sw |-> 150]
      [] OTHER          -> [da |-> "0 8",  cap |-> Some("round"), sw |-> 300]

TITLE_H == 38
TP == 66
VP == 44
AH == 8
SW == 50
SH == 36
BR == 6

\* boxHeight with Math.floor in place of Math.round
boxHeightFloor(l) == Max(28, (31 * l.boxWidth) \div 100)

\* const BH = Math.max(28, Math.round(BW * 0.31))
boxHeight(l) == Max(28, (31 * l.boxWidth + 50) \div 100)

\* const W = 2 * LP + (N - 1) * HS + BW, in pixels
canvasW(N, l) == 2 * l.margin + (N - 1) * l.spacing + l.boxWidth

\* canvasH without the message rows
canvasHNoRows(M, l) == TITLE_H + TP + boxHeight(l) + VP + VP + boxHeight(l) + TP

\* const H = TITLE_H + TP + BH + VP + ms.length * MG + VP + BH + BOT_PAD, in pixels
canvasH(M, l) ==
    TITLE_H + TP + boxHeight(l) + VP + M * l.stepHeight + VP + boxHeight(l) + TP

\* const cx = i => LP + BW / 2 + i * HS, for the 0-based column i, in hundredths
cx(k, l) == Px(l.margin) + 50 * l.boxWidth + Px(k * l.spacing)

\* const msgY = s => TITLE_H + TP + BH + VP + (s - 1) * MG, in pixels
msgY(s, l) == TITLE_H + TP + boxHeight(l) + VP + (s - 1) * l.stepHeight

\* idxOf when the lookup never finds the id
idxOfZero(ps, id) == 0

\* idx.get(id) ?? 0: the 0-based column of id; the Map keeps the last entry
\* of a repeated key
idxOf(ps, id) ==
    IF HasP(ps, id)
    THEN (CHOOSE k \in DOMAIN ps :
              ps[k].id = id /\ \A j \in (k+1)..Len(ps) : ps[j].id # id) - 1
    ELSE 0

RECURSIVE concat(_)
concat(ss) == IF ss = <<>> THEN <<>> ELSE Head(ss) \o concat(Tail(ss))

\* pillW = Math.max(40, msg.text.length * (FS * 0.62) + 12), in hundredths
pillWidth(text, l) == Max(Px(40), Len(text) * l.textSize * 62 + Px(12))

\* rowOf taking the display step, when there is one, for the row
rowOfDisplayStep(msg) == OrElse(msg.displayStep, msg.step)

\* the argument of msgY in  const y = msgY(msg.step)
rowOf(msg) == msg.step

\* numeralOf with || in place of ??: a display step of 0 falls back to step
numeralOfTruthy(msg) ==
    IF IsDefined(msg.displayStep) /\ Get(msg.displayStep) # 0
    THEN Get(msg.displayStep) ELSE msg.step

\* ${msg.displayStep ?? msg.step}
numeralOf(msg) == OrElse(msg.displayStep, msg.step)

\* isSolid whatever the arrow style
isSolidAlways(msg) == TRUE

\* msg.arrow === "solid"
isSolid(msg) == msg.arrow = "solid"

\* dirOf pointing to the right whatever the columns
dirRight(fx, tx) == 1

\* const dir = tx > fx ? 1 : -1
dirOf(fx, tx) == IF tx > fx THEN 1 ELSE -1

\* the elements pushed for one message by ms.forEach(msg => ...)
msgParts(ps, msg, o, l) ==
    LET fi  == idxOf(ps, msg.from)
        ti  == idxOf(ps, msg.to)
        y   == Px(msgY(rowOf(msg), l))
        fx  == cx(fi, l)
        tx  == cx(ti, l)
        fp  == ps[fi + 1]
        lc  == IF o.coloredLines THEN fp.color ELSE "#374151"
        tc  == IF o.coloredText THEN fp.color ELSE "#1e293b"
        FS  == l.textSize
        da  == IF msg.arrow = "dashed" THEN Some("12 5") ELSE Undefined
        pillH == Px(FS + 8)
        pillW == pillWidth(msg.text, l)
        num == numeralOf(msg)
        selfParts ==
            << [part |-> "selfPath", tag |-> "path",
                d |-> << <<"M", fx, y>>, <<"H", fx + Px(SW)>>, <<"V", y + Px(SH)>>, <<"H", fx>> >>,
                stroke |-> lc, dash |-> da],
               [part |-> "head", tag |-> "polygon",
                points |-> << <<fx, y + Px(SH)>>, <<fx + Px(AH), y + Px(SH) - Px(5)>>,
                              <<fx + Px(AH), y + Px(SH) + Px(5)>> >>,
                fill |-> lc] >>
            \o (IF o.coloredText
                THEN LET pillX == fx + Px(SW) + Px(5)
                         pillY == y + 50 * SH - pillH \div 2
                     IN  << [part |-> "pill", tag |-> "rect", x |-> pillX, y |-> pillY,
                             width |-> pillW, height |-> pillH, rx |-> pillH \div 2,
                             fill |-> fp.color],
                            [part |-> "label", tag |-> "text", font |-> o.font, x |-> pillX + pillW \div 2,
                             y |-> pillY + pillH \div 2 + Px(1), anchor |-> Some("middle"),
                             size |-> FS, fill |-> "#000000", text |-> esc(msg.text)] >>
                ELSE << [part |-> "label", tag |-> "text", font |-> o.font, x |-> fx + Px(SW) + Px(5),
                         y |-> y + 50 * SH + Px(1), anchor |-> Undefined,
                         size |-> FS, fill |-> tc, text |-> esc(msg.text)] >>)
        dir == dirOf(fx, tx)
        mid == (fx + tx) \div 2
        crossParts ==
            << [part |-> "line", tag |-> "line", x1 |-> fx, y1 |-> y,
                x2 |-> tx - dir * Px(AH), y2 |-> y, stroke |-> lc, dash |-> da],
               IF isSolid(msg)
               THEN [part |-> "head", tag |-> "polygon",
                     points |-> << <<tx, y>>, <<tx - dir * Px(AH), y - Px(5)>>,
                                   <<tx - dir * Px(AH), y + Px(5)>> >>,
                     fill |-> lc]
               ELSE [part |-> "head", tag |-> "polyline",
                     points |-> << <<tx - dir * Px(AH), y - Px(5)>>, <<tx, y>>,
                                   <<tx - dir * Px(AH), y + Px(5)>> >>,
                     fill |-> "none", stroke |-> lc] >>
            \o (IF o.coloredText
                THEN LET pillY == y - pillH - Px(10)
                     IN  << [part |-> "pill", tag |-> "rect", x |-> mid - pillW \div 2,
                             y |-> pillY, width |-> pillW, height |-> pillH,
                             rx |-> pillH \div 2, fill |-> fp.color],
                            [part |-> "label", tag |-> "text", font |-> o.font, x |-> mid,
                             y |-> pillY + pillH \div 2 + Px(1), anchor |-> Some("middle"),
                             size |-> FS, fill |-> "#000000", text |-> esc(msg.text)] >>
                ELSE << [part |-> "label", tag |-> "text", font |-> o.font, x |-> mid, y |-> y - Px(8),
                         anchor |-> Some("middle"), size |-> FS, fill |-> tc,
                         text |-> esc(msg.text)] >>)
        markerParts ==
            IF o.coloredNumbers
            THEN << [part |-> "marker", tag |-> "circle", cx |-> fx, cy |-> y,
                     r |-> Px(10), fill |-> fp.color],
                    [part |-> "numeral", tag |-> "text", font |-> o.font, x |-> fx, y |-> y + Px(1),
                     size |-> 11, fill |-> "#000000", text |-> num],
                    [part |-> "marker", tag |-> "circle", cx |-> Px(22), cy |-> y,
                     r |-> Px(10), fill |-> fp.color],
                    [part |-> "numeral", tag |-> "text", font |-> o.font, x |-> Px(22), y |-> y + Px(1),
                     size |-> 11, fill |-> "#000000", text |-> num] >>
            ELSE << [part |-> "numeral", tag |-> "text", font |-> o.font, x |-> fx, y |-> y + Px(1),
                     size |-> 13, fill |-> "#000000", text |-> num] >>
    IN  (IF fi = ti THEN selfParts ELSE crossParts) \o markerParts

\* the two elements of one participant box whose top edge is at y (pixels)
boxParts(ps, k, y, o, l, where) ==
    LET BH == boxHeight(l)
    IN  << [part |-> where, tag |-> "rect", x |-> cx(k - 1, l) - 50 * l.boxWidth,
            y |-> Px(y), width |-> Px(l.boxWidth), height |-> Px(BH), rx |-> Px(BR),
            fill |-> ps[k].color],
           [part |-> "boxLabel", tag |-> "text", font |-> o.font, x |-> cx(k - 1, l),
            y |-> Px(y) + 50 * BH + Px(1), size |-> l.textSize, fill |-> "white",
            text |-> esc(ps[k].label)] >>

\* buildSvg(d, o, l) past its early exit: the markup as the sequence of its
\* elements, the svg element first
svgBody(d, o, l) ==
    LET ps == d.participants
        ms == d.messages
        N  == Len(ps)
        BH == boxHeight(l)
        W  == canvasW(N, l)
        H  == canvasH(Len(ms), l)
        lt == TITLE_H + TP + BH
        lb == H - TP - BH
        ld == lifelineDashOf(o.lifelineDash)
        diagramTitle == OrElse(d.title, DEFAULT_DIAGRAM_TITLE)
    IN     << [part |-> "svg", tag |-> "svg", width |-> Px(W), height |-> Px(H),
                 viewBox |-> <<0, 0, Px(W), Px(H)>>],
                [part |-> "background", tag |-> "rect", width |-> Px(W),
                 height |-> Px(H), fill |-> "white"],
                [part |-> "title", tag |-> "text", font |-> o.font, x |-> 50 * W,
                 y |-> 50 * TITLE_H + Px(6), size |-> 15, fill |-> "#1e293b",
                 text |-> esc(diagramTitle)] >>
             \o [k \in 1..N |->
                   [part |-> "lifeline", tag |-> "line", x1 |-> cx(k - 1, l), y1 |-> Px(lt),
                    x2 |-> cx(k - 1, l), y2 |-> Px(lb),
                    stroke |-> IF o.coloredLines THEN <<ps[k].color, "60">> ELSE <<"#d1d5db">>,
                    width |-> ld.sw, dash |-> ld.da, cap |-> ld.cap]]
             \o concat([k \in 1..N |-> boxParts(ps, k, TITLE_H + TP, o, l, "boxTop")])
             \o concat([k \in 1..Len(ms) |-> msgParts(ps, ms[k], o, l)])
             \o concat([k \in 1..N |-> boxParts(ps, k, H - TP - BH, o, l, "boxBottom")])

\* buildSvg without its early exit
buildSvgNoExit(d, o, l) == svgBody(d, o, l)

\* buildSvg(d, o, l); the empty string is the empty sequence
buildSvg(d, o, l) ==
    IF Len(d.participants) = 0 THEN <<>> ELSE svgBody(d, o, l)

\* ------------------------------------------------------------------ inputs

\* the longest text of the exhaustive family ShortTexts, in lines
MaxLines == 3
\* the number of invocations in a behaviour of SpecCalls
MaxCalls == 3
\* the number of distinct ids of the wide texts
WideIds == 14

\* '  '
L_blank == <<" "," ">>
\* '%% note'
L_comment == <<"%","%"," ","n","o","t","e">>
\* 'autonumber'
L_autonumber == <<"a","u","t","o","n","u","m","b","e","r">>
\* 'title: T1'
L_title1 == <<"t","i","t","l","e",":"," ","T","1">>
\* ' Title:  T2 '
L_title2 == <<" ","T","i","t","l","e",":"," "," ","T","2"," ">>
\* 'participant B as Bob [x]'
L_declB == <<"p","a","r","t","i","c","i","p","a","n","t"," ","B"," ","a","s"," ","B","o","b"," ","[","x","]">>
\* 'participant A as Al'
L_declA == <<"p","a","r","t","i","c","i","p","a","n","t"," ","A"," ","a","s"," ","A","l">>
\* 'A->>B: hi'
L_msgAB == <<"A","-",">",">","B",":"," ","h","i">>
\* 'B-->A: 2. ok'
L_msgBA == <<"B","-","-",">","A",":"," ","2","."," ","o","k">>
\* '  A -> A: 1. a<br/>b'
L_msgAA == <<" "," ","A"," ","-",">"," ","A",":"," ","1","."," ","a","<","b","r","/",">","b">>
\* 'A=>B: no'
L_bad == <<"A","=",">","B",":"," ","n","o">>

\* 'A-->>B: 3. Done'
L_done == <<"A","-","-",">",">","B",":"," ","3","."," ","D","o","n","e">>
\* 'B->A: 0. z'
L_zero == <<"B","-",">","A",":"," ","0","."," ","z">>
\* 'A->B: 3.x'
L_noSpace == <<"A","-",">","B",":"," ","3",".","x">>
\* 'A->B: <BR >07.  p<br>q  '
L_brs == <<"A","-",">","B",":"," ","<","B","R"," ",">","0","7","."," "," ","p","<","b","r",">","q"," "," ">>
\* 'A->B: 4. <br/>'
L_brOnly == <<"A","-",">","B",":"," ","4","."," ","<","b","r","/",">">>
\* 'B-->>B: r'
L_selfB == <<"B","-","-",">",">","B",":"," ","r">>

Lines == {L_blank, L_title1, L_title2, L_declB, L_declA, L_msgAB, L_msgBA, L_msgAA, L_bad}

\* every text of at most MaxLines lines of Lines
ShortTexts == UNION {[1..n -> Lines] : n \in 0..MaxLines}

\* the k-th id of the wide texts: one lower-case letter
wideId(k) == <<LowerCase[k]>>
\* "participant <id>"
declLine(id) == K_participant \o <<" ">> \o id
\* "<from>->><to>: x"
msgLine(from, to) == from \o <<"-",">",">">> \o to \o <<":"," ","x">>

\* texts that register WideIds distinct ids: by declarations alone, and by
\* messages between neighbours followed by a repeated declaration
WideTexts ==
    { [k \in 1..WideIds |-> declLine(wideId(k))],
      [k \in 1..(WideIds \div 2 + 1) |->
          IF k <= WideIds \div 2 THEN msgLine(wideId(2 * k - 1), wideId(2 * k))
          ELSE K_participant \o <<" ">> \o wideId(1) \o <<" ","a","s"," ","Z">>] }

\* texts whose labels and message texts nest the markup the parser rewrites
NestedTexts ==
    { << K_participant \o <<" ","C"," ","a","s"," ","[","[","a","]","]">> >>,
      << <<"A","-",">","B",":"," ","<","b","r","<","b","r",">",">">> >> }

\* texts with comment and directive lines
DirectiveTexts ==
    { <<L_comment>>, <<L_autonumber>>, <<L_blank, L_comment, L_autonumber>>,
      <<L_comment, L_msgAB, L_autonumber, L_msgBA>> }

Texts == ShortTexts \cup WideTexts \cup NestedTexts \cup DirectiveTexts

\* 'C->>A: far'
L_far == <<"C","-",">",">","A",":"," ","f","a","r">>

\* 'autonumber->>B: x'
L_autoMsg == <<"a","u","t","o","n","u","m","b","e","r","-",">",">","B",":"," ","x">>
\* 'sequenceDiagramX->Y: 1. y'
L_seqMsg == <<"s","e","q","u","e","n","c","e","D","i","a","g","r","a","m","X","-",">","Y",":"," ","1","."," ","y">>
\* 'title: A->>B: hi'
L_titleMsg == <<"t","i","t","l","e",":"," ","A","-",">",">","B",":"," ","h","i">>

\* the longest text of the exhaustive family of message texts, in lines
MaxMsgLines == 3

MsgLines == {L_msgAB, L_msgBA, L_msgAA, L_done, L_zero}

\* texts of message lines: every text of at most MaxMsgLines lines of
\* MsgLines, and texts with every arrow token, display steps that are 0,
\* repeated and out of order, line-break tags around a display step, a
\* third participant, and a declaration that puts B in the first column
MessageTexts ==
    UNION {[1..n -> MsgLines] : n \in 0..MaxMsgLines}
      \cup { <<L_done, L_zero, L_noSpace>>, <<L_brs, L_brOnly>>,
             <<L_msgAA, L_msgAB, L_msgBA, L_done>>,
             <<L_done, L_zero, L_selfB, L_zero>>,
             <<L_msgAB, L_far, L_selfB>>, <<L_declB, L_msgAB, L_msgBA>>,
             <<L_msgAB, L_msgBA, L_selfB>>,
             <<L_autoMsg, L_msgAB, L_seqMsg>>, <<L_titleMsg, L_autoMsg>>,
             <<L_title1, L_comment, L_declA, L_bad>> }

DEFAULT_OPTS == [coloredLines |-> TRUE, coloredNumbers |-> TRUE, coloredText |-> TRUE,
                 font |-> "Inter", lifelineDash |-> "circle"]
DEFAULT_LAYOUT == [stepHeight |-> 42, boxWidth |-> 141, spacing |-> 250,
                   textSize |-> 13, margin |-> 50]
EXPORT_LAYOUT == [stepHeight |-> 58, boxWidth |-> 160, spacing |-> 210,
                  textSize |-> 14, margin |-> 60]
\* the ends of the sliders of SettingsContent
SliderMin == [stepHeight |-> 30, boxWidth |-> 80, spacing |-> 120,
              textSize |-> 10, margin |-> 35]
SliderMax == [stepHeight |-> 80, boxWidth |-> 180, spacing |-> 350,
              textSize |-> 20, margin |-> 120]
\* every toggle of SettingsContent clicked once
PlainOpts == [coloredLines |-> FALSE, coloredNumbers |-> FALSE, coloredText |-> FALSE,
              font |-> "Inter", lifelineDash |-> "circle"]

\* the (o, l) pairs buildSvg is called with
RenderArgs == { <<DEFAULT_OPTS, DEFAULT_LAYOUT>>, <<DEFAULT_OPTS, EXPORT_LAYOUT>>,
                <<PlainOpts, SliderMin>>, <<PlainOpts, SliderMax>> }

\* ----------------------------------------------------------- state machine

\* the locals of the running parse
Locals == [participants |-> participants, messages |-> messages, step |-> step,
           ci |-> ci, title |-> title, threw |-> threw]

SetLocals(st) ==
    /\ participants' = st.participants
    /\ messages' = st.messages
    /\ step' = st.step
    /\ ci' = st.ci
    /\ title' = st.title
    /\ threw' = st.threw

\* entryLocals with the colour counter kept from the invocation before, as
\* if ci were declared outside parse
entryLocalsKeepCi(old) == [parseLocals EXCEPT !.ci = old.ci]

\* the locals a new invocation of parse starts from, old being those of the
\* invocation before it: they are declared inside the function
entryLocals(old) == parseLocals

\* the useState initial values of SequenceTool, with nothing pending around it
shellAtFirstRender ==
    /\ mounted = FALSE
    /\ isMobile = FALSE
    /\ showCode = FALSE
    /\ showSettings = FALSE
    /\ copied = FALSE
    /\ hasFit = FALSE
    /\ fitActive = TRUE
    /\ zoom = 1000
    /\ pinch = Undefined
    /\ panelFrame = FALSE
    /\ synced = FALSE
    /\ firstWritten = [code |-> Undefined, opts |-> Undefined, layout |-> Undefined]
    /\ clipWrites = 0
    /\ timers = 0
    /\ events = 0

\* a desktop window and an empty localStorage
emptyEnvironment ==
    /\ viewport = <<1280, 720>>
    /\ storage = [code |-> Undefined, opts |-> Undefined, layout |-> Undefined]

\* allocLists for arrays created once, outside parse, and emptied at entry
reuseLists(n) == IF n = 0 THEN 1 ELSE n

\* const participants = [], const messages = [] at the entry of parse: two
\* arrays no earlier invocation has seen; n is the identity of the arrays of
\* the invocation before, 0 when there was none
allocLists(n) == n + 1

\* the Diagrams returned so far, each seen through its references once the
\* arrays of identity id hold the participants ps and the messages ms
seenThrough(id, ps, ms) ==
    [k \in DOMAIN returned |->
        IF returned[k].lists = id
        THEN [returned[k] EXCEPT !.now.participants = ps, !.now.messages = ms]
        ELSE returned[k]]

Init ==
    /\ code \in Texts
    /\ i = 1
    /\ participants = parseLocals.participants
    /\ messages = parseLocals.messages
    /\ step = parseLocals.step
    /\ ci = parseLocals.ci
    /\ title = parseLocals.title
    /\ threw = parseLocals.threw
    /\ pc = "parse"
    /\ opts = Undefined
    /\ layout = Undefined
    /\ svg = Undefined
    /\ prev = Undefined
    /\ lists = allocLists(0)
    /\ returned = <<>>
    /\ shellAtFirstRender
    /\ emptyEnvironment

\* one iteration of the for loop of parse
ParseLine ==
    /\ pc = "parse"
    /\ ~threw
    /\ i <= Len(code)
    /\ SetLocals(processLine(Locals, code[i]))
    /\ i' = i + 1
    /\ returned' = seenThrough(lists, participants', messages')
    /\ UNCHANGED <<code, pc, opts, layout, svg, prev, lists, shell>>

\* return { participants, messages, title }
ParseReturn ==
    /\ pc = "parse"
    /\ ~threw
    /\ i > Len(code)
    /\ pc' = "parsed"
    /\ returned' = Append(returned, [lists |-> lists, diagram |-> diagramOf(Locals),
                                     now |-> diagramOf(Locals)])
    /\ UNCHANGED <<code, i, participants, messages, step, ci, title, threw,
                   opts, layout, svg, prev, lists, shell>>

\* svg = buildSvg(diagram, o, l)
BuildSvg(o, l) ==
    /\ pc = "parsed"
    /\ opts' = o
    /\ layout' = l
    /\ svg' = buildSvg(diagramOf(Locals), o, l)
    /\ pc' = "rendered"
    /\ UNCHANGED <<code, i, participants, messages, step, ci, title, threw, prev,
                   lists, returned, shell>>

Render == \E a \in RenderArgs : BuildSvg(a[1], a[2])

Next == ParseLine \/ ParseReturn \/ Render

Spec == Init /\ [][Next]_vars

\* parse and buildSvg on the texts of message lines
InitMsgs ==
    /\ code \in MessageTexts
    /\ i = 1
    /\ participants = parseLocals.participants
    /\ messages = parseLocals.messages
    /\ step = parseLocals.step
    /\ ci = parseLocals.ci
    /\ title = parseLocals.title
    /\ threw = parseLocals.threw
    /\ pc = "parse"
    /\ opts = Undefined
    /\ layout = Undefined
    /\ svg = Undefined
    /\ prev = Undefined
    /\ lists = allocLists(0)
    /\ returned = <<>>
    /\ shellAtFirstRender
    /\ emptyEnvironment

SpecMsgs == InitMsgs /\ [][Next]_vars

\* the texts of the repeated invocations
CallTexts == { <<L_msgAB>>, <<L_declB, L_msgBA>>, <<L_title1, L_msgAA>> }

\* a further invocation parse(c), then buildSvg, after an invocation has
\* returned (useMemo on every change of code, handlePaste, exportPng); prev
\* records the results of the first invocation and counts the invocations
\* made since
CallAgain ==
    /\ pc = "rendered"
    /\ (IF IsDefined(prev) THEN Get(prev).n ELSE 0) + 1 < MaxCalls
    /\ prev' = IF IsDefined(prev) THEN Some([Get(prev) EXCEPT !.n = @ + 1])
               ELSE Some([n |-> 1, code |-> code, diagram |-> diagramOf(Locals),
                          opts |-> opts, layout |-> layout, svg |-> svg])
    /\ \E c \in CallTexts : code' = c
    /\ i' = 1
    /\ SetLocals(entryLocals(Locals))
    /\ lists' = allocLists(lists)
    /\ returned' = seenThrough(lists', participants', messages')
    /\ pc' = "parse"
    /\ UNCHANGED <<opts, layout, svg, shell>>

InitCalls == Init /\ code \in CallTexts

NextCalls == ParseLine \/ ParseReturn \/ Render \/ CallAgain

SpecCalls == InitCalls /\ [][NextCalls]_vars

\* ------------------------------------------------------------ the component

\* the em dash U+2014, which a string of this language cannot hold
EmDash == "U+2014"

\* DEFAULT_CODE.split("\n")
DEFAULT_CODE ==
    <<
       <<"s","e","q","u","e","n","c","e","D","i","a","g","r","a","m">>,
       <<" "," "," "," ","t","i","t","l","e",":"," ","C","l","a","u","d","e"," ","C","o","d","e",
         " ",EmDash," ","A","I"," ","D","e","v"," ","L","o","o","p">>,
       <<>>,
       <<" "," "," "," ","p","a","r","t","i","c","i","p","a","n","t"," ","U","s","e","r">>,
       <<" "," "," "," ","p","a","r","t","i","c","i","p","a","n","t"," ","C","C"," ","a","s"," ",
         "C","l","a","u","d","e"," ","C","o","d","e"," ","[","C","L","I","]">>,
       <<" "," "," "," ","p","a","r","t","i","c","i","p","a","n","t"," ","A","P","I"," ","a","s",
         " ","C","l","a","u","d","e"," ","A","P","I">>,
       <<" "," "," "," ","p","a","r","t","i","c","i","p","a","n","t"," ","M","E","M"," ","a","s",
         " ","M","e","m","o","r","y"," ","[","C","L","A","U","D","E",".","m","d","]">>,
       <<" "," "," "," ","p","a","r","t","i","c","i","p","a","n","t"," ","M","C","P"," ","a","s",
         " ","M","C","P"," ","S","e","r","v","e","r">>,
       <<" "," "," "," ","p","a","r","t","i","c","i","p","a","n","t"," ","F","S"," ","a","s"," ",
         "F","i","l","e"," ","S","y","s","t","e","m">>,
       <<" "," "," "," ","p","a","r","t","i","c","i","p","a","n","t"," ","S","H"," ","a","s"," ",
         "S","h","e","l","l"," ","/"," ","B","a","s","h">>,
       <<" "," "," "," ","p","a","r","t","i","c","i","p","a","n","t"," ","G","I","T"," ","a","s",
         " ","G","i","t">>,
       <<" "," "," "," ","p","a","r","t","i","c","i","p","a","n","t"," ","A","G","T"," ","a","s",
         " ","S","u","b","-","A","g","e","n","t">>,
       <<" "," "," "," ","p","a","r","t","i","c","i","p","a","n","t"," ","W","E","B"," ","a","s",
         " ","W","e","b"," ","S","e","a","r","c","h">>,
       <<>>,
       <<" "," "," "," ","U","s","e","r","-",">",">","C","C",":"," ","\"","A","d","d"," ","a","u",
         "t","h"," ","t","o"," ","m","y"," ","a","p","p","\"">>,
       <<" "," "," "," ","C","C","-",">",">","M","E","M",":"," ","L","o","a","d"," ","p","r","o",
         "j","e","c","t"," ","c","o","n","t","e","x","t"," ","&"," ","r","u","l","e","s">>,
       <<" "," "," "," ","M","E","M","-","-",">",">","C","C",":"," ","C","L","A","U","D","E",".",
         "m","d"," ","+"," ","m","e","m","o","r","y"," ","f","i","l","e","s">>,
       <<" "," "," "," ","C","C","-",">",">","A","P","I",":"," ","T","a","s","k"," ","+"," ","t",
         "o","o","l","s"," ","+"," ","f","u","l","l"," ","c","o","n","t","e","x","t">>,
       <<" "," "," "," ","A","P","I","-","-",">",">","C","C",":"," ","R","e","a","s","o","n","i",
         "n","g"," ","p","l","a","n"," ","+"," ","t","o","o","l"," ","c","a","l","l","s">>,
       <<" "," "," "," ","C","C","-",">",">","F","S",":"," ","R","e","a","d"," ","s","o","u","r",
         "c","e"," ","f","i","l","e","s"," ","[","G","l","o","b",","," ","G","r","e","p",","," ",
         "R","e","a","d","]">>,
       <<" "," "," "," ","F","S","-","-",">",">","C","C",":"," ","C","o","d","e"," ","s","t","r",
         "u","c","t","u","r","e"," ","&"," ","r","e","l","e","v","a","n","t"," ","f","i","l","e",
         "s">>,
       <<" "," "," "," ","C","C","-",">",">","M","C","P",":"," ","F","e","t","c","h"," ","e","x",
         "t","e","r","n","a","l"," ","d","o","c","s"," ","&"," ","s","c","h","e","m","a","s">>,
       <<" "," "," "," ","M","C","P","-","-",">",">","C","C",":"," ","R","e","f","e","r","e","n",
         "c","e"," ","d","a","t","a"," ","r","e","t","u","r","n","e","d">>,
       <<" "," "," "," ","C","C","-",">",">","A","G","T",":"," ","S","p","a","w","n"," ","s","u",
         "b","-","a","g","e","n","t"," ","[","r","e","s","e","a","r","c","h","]">>,
       <<" "," "," "," ","A","G","T","-",">",">","W","E","B",":"," ","S","e","a","r","c","h"," ",
         "a","u","t","h"," ","b","e","s","t"," ","p","r","a","c","t","i","c","e","s">>,
       <<" "," "," "," ","W","E","B","-","-",">",">","A","G","T",":"," ","O","A","u","t","h","2",
         " ","&"," ","J","W","T"," ","p","a","t","t","e","r","n","s">>,
       <<" "," "," "," ","A","G","T","-","-",">",">","C","C",":"," ","R","e","s","e","a","r","c",
         "h"," ","c","o","m","p","l","e","t","e">>,
       <<" "," "," "," ","C","C","-",">",">","F","S",":"," ","W","r","i","t","e"," ","i","m","p",
         "l","e","m","e","n","t","a","t","i","o","n"," ","[","E","d","i","t",","," ","W","r","i",
         "t","e","]">>,
       <<" "," "," "," ","C","C","-",">",">","S","H",":"," ","R","u","n"," ","t","e","s","t","s",
         " ","&"," ","l","i","n","t">>,
       <<" "," "," "," ","S","H","-","-",">",">","C","C",":"," ","A","l","l"," ","t","e","s","t",
         "s"," ","p","a","s","s","i","n","g">>,
       <<" "," "," "," ","C","C","-",">",">","G","I","T",":"," ","S","t","a","g","e"," ","&"," ",
         "c","o","m","m","i","t"," ","c","h","a","n","g","e","s">>,
       <<" "," "," "," ","G","I","T","-","-",">",">","C","C",":"," ","C","o","m","m","i","t","t",
         "e","d"," ","s","u","c","c","e","s","s","f","u","l","l","y">>,
       <<" "," "," "," ","C","C","-","-",">",">","U","s","e","r",":"," ","D","o","n","e"," ",EmDash,
         " ","3"," ","f","i","l","e","s"," ","c","h","a","n","g","e","d">> >>

\* the parse and render state the handlers of the component leave alone
machine == <<code, i, participants, messages, step, ci, title, threw, pc, opts, layout,
             svg, prev, lists, returned>>

\* the bound on the input events handled in one behaviour
MaxEvents == 3

\* window sizes: a phone and a desktop window
Viewports == { <<375, 667>>, <<1280, 720>> }

\* window.innerWidth < 768
isMobileAt(v) == v[1] < 768

\* the header is 54 high, the desktop settings panel 268 wide
HEADER_H == 54
SETTINGS_W == 268
\* useState(340)
codeWidth == 340

\* clientWidth and clientHeight of the canvas element: the window without
\* the header and without the side panels of the desktop layout
canvasSize ==
    << viewport[1] - (IF ~isMobile /\ showCode THEN codeWidth ELSE 0)
                   - (IF ~isMobile /\ showSettings THEN SETTINGS_W ELSE 0),
       viewport[2] - HEADER_H >>

\* svgDims: the width and height attributes of the svg element, absent when
\* the markup is empty
svgDims ==
    IF svg = <<>> THEN Undefined
    ELSE Some([w |-> svg[1].width \div 100, h |-> svg[1].height \div 100])

\* parseFloat((num / den).toFixed(3)), in thousandths
toFixed3(num, den) == (2000 * num + den) \div (2 * den)

\* the results parseFloat(z.toFixed(2)) can have for z thousandths, in
\* thousandths: a z halfway between two hundredths goes to either, by the
\* binary value of the number
toFixed2(z) ==
    IF z % 10 = 5 THEN {z - 5, z + 5}
    ELSE {10 * ((z + 5) \div 10)}

\* Math.min(3, Math.max(0.2, z))
clamp(z) == IF z < 200 THEN 200 ELSE IF z > 3000 THEN 3000 ELSE z

\* the zoom and fitActive fitZoom() leaves
fitZoom ==
    IF ~IsDefined(svgDims) THEN <<zoom, fitActive>>
    ELSE LET a == toFixed3(canvasSize[1] - 48, Get(svgDims).w)
             b == toFixed3(canvasSize[2] - 48, Get(svgDims).h)
         IN  << IF a < b THEN a ELSE b, TRUE >>

\* { ...prev, ...JSON.parse(o) }
merge(prev0, o) == [k \in DOMAIN prev0 \cup DOMAIN o |-> IF k \in DOMAIN o THEN o[k] ELSE prev0[k]]

\* if (c): a stored string is truthy unless it is empty
truthy(c) == c # << <<>> >>

StorageKeys == {"code", "opts", "layout"}

\* the record of the first localStorage.setItem of each key
noteWrites(old, new) ==
    [k \in StorageKeys |->
        IF IsDefined(firstWritten[k]) THEN firstWritten[k]
        ELSE Some([was |-> old[k], wrote |-> Get(new[k])])]

\* the first pass of the effects, after the first render: the persist
\* effects see mounted false and write nothing, the mount effect reads the
\* storage and sets the state, and the component renders again
MountEffects ==
    /\ pc = "rendered"
    /\ ~mounted
    /\ mounted' = TRUE
    /\ isMobile' = isMobileAt(viewport)
    /\ code' = IF IsDefined(storage.code) /\ truthy(Get(storage.code))
               THEN Get(storage.code) ELSE code
    /\ opts' = IF IsDefined(storage.opts) THEN merge(opts, Get(storage.opts)) ELSE opts
    /\ layout' = IF IsDefined(storage.layout) THEN merge(layout, Get(storage.layout))
                 ELSE layout
    /\ IF code' # code
       THEN /\ i' = 1
            /\ SetLocals(entryLocals(Locals))
            /\ lists' = allocLists(lists)
            /\ returned' = seenThrough(lists', participants', messages')
            /\ pc' = "parse"
       ELSE /\ pc' = IF opts' # opts \/ layout' # layout THEN "parsed" ELSE "rendered"
            /\ UNCHANGED <<i, participants, messages, step, ci, title, threw, lists, returned>>
    /\ synced' = FALSE
    /\ UNCHANGED <<svg, prev, showCode, showSettings, copied, hasFit, fitActive, zoom,
                   pinch, panelFrame, viewport, storage, firstWritten, clipWrites,
                   timers, events>>

\* svg = buildSvg(diagram, opts, layout) with the state of the component
RenderState == BuildSvg(opts, layout)

\* the persist effects after a render of the mounted component; a key whose
\* state did not change is written with the value it already has
Persist ==
    /\ pc = "rendered"
    /\ mounted
    /\ ~synced
    /\ storage' = [code |-> Some(code), opts |-> Some(opts), layout |-> Some(layout)]
    /\ firstWritten' = noteWrites(storage, storage')
    /\ synced' = TRUE
    /\ UNCHANGED <<machine, mounted, isMobile, showCode, showSettings, copied, hasFit,
                   fitActive, zoom, pinch, panelFrame, viewport, clipWrites, timers, events>>

\* the component is mounted, rendered and its effects have run
Ready == pc = "rendered" /\ mounted /\ synced

\* an input event is handled
Handled ==
    /\ Ready
    /\ events < MaxEvents
    /\ events' = events + 1

\* the animation frame of the first fit: fitZoom(); setHasFit(true)
FitFrame ==
    /\ Ready
    /\ IsDefined(svgDims)
    /\ ~hasFit
    /\ zoom' = fitZoom[1]
    /\ fitActive' = fitZoom[2]
    /\ hasFit' = TRUE
    /\ UNCHANGED <<machine, mounted, isMobile, showCode, showSettings, copied, pinch,
                   panelFrame, viewport, storage, synced, firstWritten, clipWrites,
                   timers, events>>

\* the animation frame the panel effect requested: fitZoom()
PanelFit ==
    /\ Ready
    /\ panelFrame
    /\ zoom' = fitZoom[1]
    /\ fitActive' = fitZoom[2]
    /\ panelFrame' = FALSE
    /\ UNCHANGED <<machine, mounted, isMobile, showCode, showSettings, copied, hasFit,
                   pinch, viewport, storage, synced, firstWritten, clipWrites, timers,
                   events>>

\* the panel effect after a click: a frame is requested when showCode or
\* showSettings changed
PanelEffect ==
    panelFrame' = (panelFrame \/ showCode' # showCode \/ showSettings' # showSettings)

\* the code button of the header
ClickCode ==
    /\ Handled
    /\ showCode' = ~showCode
    /\ showSettings' = IF showSettings THEN FALSE ELSE showSettings
    /\ UNCHANGED <<machine, mounted, isMobile, copied, hasFit, fitActive, zoom, pinch,
                   viewport, storage, synced, firstWritten, clipWrites, timers>>
    /\ PanelEffect

\* the settings button of the header
ClickSettings ==
    /\ Handled
    /\ showSettings' = ~showSettings
    /\ showCode' = IF showCode /\ isMobile THEN FALSE ELSE showCode
    /\ UNCHANGED <<machine, mounted, isMobile, copied, hasFit, fitActive, zoom, pinch,
                   viewport, storage, synced, firstWritten, clipWrites, timers>>
    /\ PanelEffect

\* the close and Done buttons of the mobile code editor
CloseCode ==
    /\ Handled
    /\ isMobile /\ showCode
    /\ showCode' = FALSE
    /\ UNCHANGED <<machine, mounted, isMobile, showSettings, copied, hasFit, fitActive,
                   zoom, pinch, viewport, storage, synced, firstWritten, clipWrites, timers>>
    /\ PanelEffect

\* the close button of the desktop settings panel, the close button and the
\* backdrop of the mobile settings sheet
CloseSettings ==
    /\ Handled
    /\ showSettings
    /\ showSettings' = FALSE
    /\ UNCHANGED <<machine, mounted, isMobile, showCode, copied, hasFit, fitActive,
                   zoom, pinch, viewport, storage, synced, firstWritten, clipWrites, timers>>
    /\ PanelEffect

\* a resize event of the window
Resize ==
    /\ Handled
    /\ \E v \in Viewports : viewport' = v
    /\ isMobile' = isMobileAt(viewport')
    /\ UNCHANGED <<machine, mounted, showCode, showSettings, copied, hasFit, fitActive,
                   zoom, pinch, panelFrame, storage, synced, firstWritten, clipWrites,
                   timers>>

\* the zoom state set by a handler that leaves the rest alone
SetZoom(z, active) ==
    /\ zoom' = z
    /\ fitActive' = active
    /\ UNCHANGED <<machine, mounted, isMobile, showCode, showSettings, copied, hasFit,
                   pinch, panelFrame, viewport, storage, synced, firstWritten,
                   clipWrites, timers>>

\* wheel events: pixel mode and line mode, with and without the ctrl key
WheelEvents ==
    { [ctrlKey |-> TRUE, deltaY |-> 100, deltaMode |-> 0],
      [ctrlKey |-> TRUE, deltaY |-> -3, deltaMode |-> 1],
      [ctrlKey |-> FALSE, deltaY |-> -100, deltaMode |-> 0] }

\* e.deltaMode === 1 ? 0.06 : 0.004, in thousandths
speed(e) == IF e.deltaMode = 1 THEN 60 ELSE 4

onWheel ==
    /\ Handled
    /\ \E e \in WheelEvents :
          IF ~e.ctrlKey THEN SetZoom(zoom, fitActive)
          ELSE SetZoom(clamp(zoom - e.deltaY * speed(e)), FALSE)

\* touchstart with two touches
onTouchStart ==
    /\ Handled
    /\ pinch' = Some(zoom)
    /\ UNCHANGED <<machine, mounted, isMobile, showCode, showSettings, copied, hasFit,
                   fitActive, zoom, panelFrame, viewport, storage, synced, firstWritten,
                   clipWrites, timers>>

\* d / startPinchDist as <<numerator, denominator>>
PinchRatios == { <<1, 2>>, <<2, 1>> }

\* touchmove with two touches
onTouchMove ==
    /\ Handled
    /\ IsDefined(pinch)
    /\ \E r \in PinchRatios : SetZoom(clamp(toFixed3(Get(pinch) * r[1], 1000 * r[2])), FALSE)

onTouchEnd ==
    /\ Handled
    /\ IsDefined(pinch)
    /\ pinch' = Undefined
    /\ UNCHANGED <<machine, mounted, isMobile, showCode, showSettings, copied, hasFit,
                   fitActive, zoom, panelFrame, viewport, storage, synced, firstWritten,
                   clipWrites, timers>>

\* the minus button of the zoom toolbar
ZoomOut ==
    /\ Handled
    /\ \E z \in toFixed2(IF zoom - 100 < 200 THEN 200 ELSE zoom - 100) : SetZoom(z, FALSE)

\* the plus button of the zoom toolbar
ZoomIn ==
    /\ Handled
    /\ \E z \in toFixed2(IF zoom + 100 > 3000 THEN 3000 ELSE zoom + 100) : SetZoom(z, FALSE)

\* the preset buttons of the desktop toolbar, in percent
Presets == {50, 75, 100, 120, 150}

Preset ==
    /\ Handled
    /\ ~isMobile
    /\ \E p \in Presets : SetZoom(10 * p, FALSE)

\* the Fit button
ClickFit ==
    /\ Handled
    /\ SetZoom(fitZoom[1], fitZoom[2])

\* the component with DEFAULT_CODE, before its first render
InitComponent ==
    /\ code = DEFAULT_CODE
    /\ i = 1
    /\ participants = parseLocals.participants
    /\ messages = parseLocals.messages
    /\ step = parseLocals.step
    /\ ci = parseLocals.ci
    /\ title = parseLocals.title
    /\ threw = parseLocals.threw
    /\ pc = "parse"
    /\ opts = DEFAULT_OPTS
    /\ layout = DEFAULT_LAYOUT
    /\ svg = Undefined
    /\ prev = Undefined
    /\ lists = allocLists(0)
    /\ returned = <<>>
    /\ shellAtFirstRender

\* the first visit: nothing stored, on a phone or a desktop
InitShell ==
    /\ InitComponent
    /\ viewport \in Viewports
    /\ storage = [code |-> Undefined, opts |-> Undefined, layout |-> Undefined]

Lifecycle == ParseLine \/ ParseReturn \/ RenderState \/ MountEffects \/ Persist \/ FitFrame

NextShell ==
    \/ Lifecycle
    \/ PanelFit \/ ClickCode \/ ClickSettings \/ CloseCode \/ CloseSettings \/ Resize
    \/ onWheel \/ onTouchStart \/ onTouchMove \/ onTouchEnd
    \/ ZoomOut \/ ZoomIn \/ Preset \/ ClickFit

SpecShell == InitShell /\ [][NextShell]_vars


\* ------------------------------------------------------------------ claims

\* the lines of code the loop has processed
Processed == 1..(i - 1)

\* the ids a line refers to, in the order the line names them
idsOfLine(raw) ==
    LET l == trim(raw)
    IN  IF lineKind(raw) = "participant" THEN <<Get(matchParticipant(l)).id>>
        ELSE IF lineKind(raw) = "message"
             THEN <<Get(matchMessage(l)).fId, Get(matchMessage(l)).tId>>
        ELSE <<>>

\* every reference to an id in the processed lines, in source order
Mentions == concat([k \in Processed |-> idsOfLine(code[k])])

\* a sequence of ids without the repetitions of an id named before
RECURSIVE firstOccurrences(_)
firstOccurrences(m) ==
    IF m = <<>> THEN <<>>
    ELSE LET r == firstOccurrences(Take(m, Len(m) - 1))
         IN  IF \E k \in DOMAIN r : r[k] = m[Len(m)] THEN r ELSE Append(r, m[Len(m)])

\* the distinct ids seen, in the order of their first reference
FirstSeen == firstOccurrences(Mentions)

\* C1: in every state of the parse and in its result, the k-th message
\* carries step k, the step counter equals the number of messages, and that
\* number is the number of processed lines recognized as message lines,
\* whatever display-step prefixes, participant, title, skipped or
\* unrecognized lines the text holds.
C1_StepsAreDense ==
    /\ \A k \in DOMAIN messages : messages[k].step = k
    /\ step = Len(messages)
    /\ Len(messages) = Cardinality({k \in Processed : lineKind(code[k]) = "message"})

\* C1 witness: a finished parse with two messages, one carrying a display
\* step that differs from its step, of a text that also holds a line that is
\* no message line.
C1_Witness ==
    /\ pc = "parsed"
    /\ Len(messages) = 2
    /\ \E k \in DOMAIN messages :
          IsDefined(messages[k].displayStep) /\ Get(messages[k].displayStep) # k
    /\ \E k \in DOMAIN code : lineKind(code[k]) \in {"title", "participant", "none"}

\* C2: the ids of the participants list are exactly the ids the processed
\* lines refer to (declarations and message endpoints), each once, in the
\* order of their first reference, a message naming its source first.
C2_ParticipantsAreFirstSeen ==
    LET m  == Mentions
        fs == firstOccurrences(m)
    IN  /\ Len(participants) = Len(fs)
        /\ \A k \in DOMAIN participants : participants[k].id = fs[k]
        /\ \A j, k \in DOMAIN participants :
              participants[j].id = participants[k].id => j = k
        /\ {participants[k].id : k \in DOMAIN participants} = {m[p] : p \in DOMAIN m}

\* C2 witness: a finished parse whose first participant was declared before
\* the message that names it as destination, the message's source coming
\* second, so that list order differs from the order inside the message.
C2_Witness ==
    /\ pc = "parsed"
    /\ Len(participants) = 2
    /\ Len(messages) >= 1
    /\ participants[1].id = messages[1].to
    /\ participants[2].id = messages[1].from
    /\ Len(Mentions) >= 3

\* C3: the k-th distinct id seen (k from 0) sits at list index k with
\* colour PAL[k mod 12], and no step of the parse changes the index or the
\* colour of a participant already registered.
C3_FirstAppearanceWins ==
    /\ [](LET fs == FirstSeen
           IN  \A k \in DOMAIN participants :
                   /\ k \in DOMAIN fs
                   /\ participants[k].id = fs[k]
                   /\ participants[k].color = PAL[((k - 1) % 12) + 1])
    /\ [][\A k \in DOMAIN participants :
             /\ k \in DOMAIN participants'
             /\ participants'[k].id = participants[k].id
             /\ participants'[k].color = participants[k].color]_vars

\* C3 witness: a finished parse with more than twelve participants, the
\* thirteenth taking the first palette colour again, of a text whose last
\* line declares an id that was registered before.
C3_Witness ==
    /\ pc = "parsed"
    /\ Len(participants) > 12
    /\ participants[13].color = PAL[1]
    /\ lineKind(code[Len(code)]) = "participant"
    /\ participants[1].id = idsOfLine(code[Len(code)])[1]

\* the line the loop is about to process is a declaration with an alias of
\* an id whose first reference was a message line
AliasAfterMessageAt(k) ==
    /\ lineKind(code[k]) = "participant"
    /\ IsDefined(Get(matchParticipant(trim(code[k]))).label)
    /\ \E j \in 1..(k - 1) :
          /\ lineKind(code[j]) = "message"
          /\ \E q \in DOMAIN idsOfLine(code[j]) :
                idsOfLine(code[j])[q] = idsOfLine(code[k])[1]
          /\ \A h \in 1..(j - 1) : \A q \in DOMAIN idsOfLine(code[h]) :
                idsOfLine(code[h])[q] # idsOfLine(code[k])[1]

\* the participant with the given id
participantOf(ps, id) == ps[CHOOSE k \in DOMAIN ps : ps[k].id = id]

\* C4 as stated: a declaration with an alias of an id registered by an
\* earlier message reference sets that participant's label to the alias.
C4_AliasUpdatesLabel ==
    [][(pc = "parse" /\ i \in DOMAIN code /\ AliasAfterMessageAt(i))
        => participantOf(participants', idsOfLine(code[i])[1]).label
             = replaceBrackets(Get(Get(matchParticipant(trim(code[i]))).label))]_vars

\* C4 amended: a declaration with an alias of an id registered by an
\* earlier message reference changes nothing of the participants list: the
\* label stays the id, and the position and the colour stay as they were.
C4_AliasAfterMessageIsNoOp ==
    [][(pc = "parse" /\ i \in DOMAIN code /\ AliasAfterMessageAt(i))
        => /\ participants' = participants
           /\ participantOf(participants', idsOfLine(code[i])[1]).label
                = idsOfLine(code[i])[1]]_vars

\* C4 witness: a finished parse of a text in which a declaration with an
\* alias follows a message that registered the id, the participant's label
\* still being the id.
C4_Witness ==
    /\ pc = "parsed"
    /\ \E k \in DOMAIN code :
          /\ AliasAfterMessageAt(k)
          /\ participantOf(participants, idsOfLine(code[k])[1]).label
               = idsOfLine(code[k])[1]
          /\ participantOf(participants, idsOfLine(code[k])[1]).label
               # replaceBrackets(Get(Get(matchParticipant(trim(code[k]))).label))

\* C5: no statement of parse raises, and the line being processed either
\* takes exactly one of the four branches, with only that branch's effect,
\* or matches none and leaves participants, messages, title, step and ci
\* unchanged; in both cases the loop goes on to the next line.
C5_NeverRaises ==
    /\ [](~threw)
    /\ [][(pc = "parse" /\ i \in DOMAIN code) =>
            LET k == lineKind(code[i])
            IN  /\ i' = i + 1
                /\ pc' = "parse"
                /\ k \in {"skip", "none"} =>
                       UNCHANGED <<participants, messages, title, step, ci>>
                /\ k = "title" =>
                       IsDefined(title') /\ UNCHANGED <<participants, messages, step, ci>>
                /\ k = "participant" => UNCHANGED <<messages, title, step>>
                /\ k = "message" =>
                       /\ UNCHANGED title
                       /\ Len(messages') = Len(messages) + 1
                       /\ step' = step + 1]_vars

\* C5 witness: a finished parse of a text in which an unrecognized line is
\* followed by a message line that was parsed.
C5_Witness ==
    /\ pc = "parsed"
    /\ ~threw
    /\ \E k \in DOMAIN code :
          /\ lineKind(code[k]) = "none"
          /\ k < Len(code)
          /\ lineKind(code[k + 1]) = "message"
    /\ Len(messages) >= 1

\* the processed lines that match the title directive
TitleLines == {k \in Processed : lineKind(code[k]) = "title"}

\* the text of a title line: what follows "title:", trimmed
titleTextOf(raw) == trim(Drop(trim(raw), Len(K_title)))

LastTitleLine == CHOOSE k \in TitleLines : \A j \in TitleLines : j <= k

\* the text of the title element of the markup
RenderedTitle == svg[CHOOSE k \in DOMAIN svg : svg[k].part = "title"].text

\* C6: the title is the trimmed text of the last processed line that matches
\* the title directive and is undefined when there is none; the markup's
\* title is that text, or "Sequence Diagram" when the title is undefined.
C6_TitleLastWins ==
    /\ title = IF TitleLines = {} THEN Undefined
               ELSE Some(titleTextOf(code[LastTitleLine]))
    /\ (pc = "rendered" /\ svg # <<>>) =>
          RenderedTitle = esc(IF TitleLines = {} THEN DEFAULT_DIAGRAM_TITLE
                              ELSE titleTextOf(code[LastTitleLine]))

\* C6 witness: markup of a text with two title lines of different texts,
\* the title being that of the second.
C6_Witness ==
    /\ pc = "rendered"
    /\ svg # <<>>
    /\ \E j, k \in TitleLines :
          /\ j < k
          /\ k = LastTitleLine
          /\ titleTextOf(code[j]) # titleTextOf(code[k])
          /\ RenderedTitle = esc(titleTextOf(code[k]))

\* C7: the markup is the empty string exactly when the diagram has no
\* participant, and a text of skipped lines only gives no participant, no
\* message and the empty markup.
C7_EmptyIffNoParticipants ==
    pc = "rendered" =>
        /\ (svg = <<>>) <=> (Len(participants) = 0)
        /\ (\A k \in DOMAIN code : lineKind(code[k]) = "skip") =>
               (participants = <<>> /\ messages = <<>> /\ svg = <<>>)

\* C7 witness: the empty markup of a text that holds a blank line and a
\* comment line and nothing but skipped lines.
C7_Witness ==
    /\ pc = "rendered"
    /\ svg = <<>>
    /\ \A k \in DOMAIN code : lineKind(code[k]) = "skip"
    /\ \E k \in DOMAIN code : trim(code[k]) = <<>>
    /\ \E k \in DOMAIN code : StartsWith(trim(code[k]), <<"%","%">>)

\* C10: with the layout fixed, the canvas of the diagram is higher than that
\* of the same diagram without its last message, and wider than that of the
\* same diagram without its last participant (one participant remaining).
C10_CanvasGrows ==
    (pc = "rendered" /\ svg # <<>>) =>
        LET d == diagramOf(Locals)
        IN  /\ Len(d.messages) >= 1 =>
                  buildSvg([d EXCEPT !.messages = Take(@, Len(@) - 1)],
                           opts, layout)[1].height < svg[1].height
            /\ Len(d.participants) >= 2 =>
                  buildSvg([d EXCEPT !.participants = Take(@, Len(@) - 1)],
                           opts, layout)[1].width < svg[1].width

\* C10 witness: markup at the smallest slider values of a diagram with two
\* messages and two participants.
C10_Witness ==
    /\ pc = "rendered"
    /\ svg # <<>>
    /\ layout = SliderMin
    /\ Len(messages) >= 2
    /\ Len(participants) >= 2

\* String(n) for a natural number n
RECURSIVE toDigits(_)
toDigits(n) == IF n < 10 THEN <<Digits[n + 1]>>
               ELSE toDigits(n \div 10) \o <<Digits[(n % 10) + 1]>>

\* the re-serialization the round-trip law names: the title directive, then
\* "participant <id> as <label>" in list order, then
\* "<from> <arrow> <to>: [<displayStep>. ]<text>" in step order
serialize(d) ==
    (IF IsDefined(d.title) THEN << K_title \o <<" ">> \o Get(d.title) >> ELSE <<>>)
    \o [k \in DOMAIN d.participants |->
          K_participant \o <<" ">> \o d.participants[k].id
            \o <<" ">> \o K_as \o <<" ">> \o d.participants[k].label]
    \o [k \in DOMAIN d.messages |->
          LET m == d.messages[k]
          IN  m.from \o <<" ">>
                \o (IF m.arrow = "dashed" THEN ArrowTokens[1] ELSE ArrowTokens[2])
                \o <<" ">> \o m.to \o <<":", " ">>
                \o (IF IsDefined(m.displayStep)
                    THEN toDigits(Get(m.displayStep)) \o <<".", " ">> ELSE <<>>)
                \o m.text]

\* C8: parsing the re-serialization of a parsed diagram gives the same
\* diagram again: the same participants, messages and title.
C8_RoundTrip ==
    pc = "parsed" =>
        diagramOf(parseFrom(parseLocals, serialize(diagramOf(Locals))))
          = diagramOf(Locals)

Drawn == pc = "rendered" /\ svg # <<>>

\* the positions in the markup of the elements of the given parts, ascending
RECURSIVE positionsOf(_, _)
positionsOf(parts, n) ==
    IF n = 0 THEN <<>>
    ELSE IF svg[n].part \in parts THEN Append(positionsOf(parts, n - 1), n)
    ELSE positionsOf(parts, n - 1)

\* where the elements of each message begin: its line, or its loop
MsgStart == positionsOf({"line", "selfPath"}, Len(svg))

\* where the bottom boxes begin
BottomStart == positionsOf({"boxBottom"}, Len(svg))[1]

\* the elements of the k-th message drawn: from its line or loop up to the
\* next message's, or up to the bottom boxes
MsgElems(k) ==
    LET ms == MsgStart
    IN  SubSeq(svg, ms[k], (IF k < Len(ms) THEN ms[k + 1] ELSE BottomStart) - 1)

\* the y of the row of a line or loop element
rowYOf(e) == IF e.part = "line" THEN e.y1 ELSE e.d[1][3]

\* the x of the lifeline of the participant with the given id
LifelineX(id) ==
    LET ll == positionsOf({"lifeline"}, Len(svg))
    IN  svg[ll[CHOOSE k \in DOMAIN participants : participants[k].id = id]].x1

\* 0.31 * bw rounded to the nearest integer, halves upwards
Round31(bw) ==
    CHOOSE b \in 0..bw : 100 * b <= 31 * bw + 50 /\ 31 * bw + 50 < 100 * (b + 1)

\* BH = max(28, round(0.31 * boxWidth))
ExpectedBH == IF Round31(layout.boxWidth) > 28 THEN Round31(layout.boxWidth) ELSE 28

\* C11: with P >= 1 participants and M messages the canvas is
\* 2*margin + (P-1)*spacing + boxWidth wide and
\* 38 + 66 + BH + 44 + M*stepHeight + 44 + BH + 66 high; the svg element's
\* width, height and viewBox carry these values; every message is drawn
\* once, and the row of each message lies one stepHeight below the row of the
\* message before it, whatever their texts.
C11_CanvasSize ==
    Drawn =>
        LET P == Len(participants)
            M == Len(messages)
            W == 2 * layout.margin + (P - 1) * layout.spacing + layout.boxWidth
            H == 38 + 66 + ExpectedBH + 44 + M * layout.stepHeight
                   + 44 + ExpectedBH + 66
            ms == MsgStart
        IN  /\ P >= 1
            /\ svg[1].tag = "svg"
            /\ svg[1].width = Px(W)
            /\ svg[1].height = Px(H)
            /\ svg[1].viewBox = <<0, 0, Px(W), Px(H)>>
            /\ Len(ms) = M
            /\ \A k \in 1..(M - 1) :
                  rowYOf(svg[ms[k + 1]]) - rowYOf(svg[ms[k]]) = Px(layout.stepHeight)

\* C11 witness: markup at the default layout, where 0.31 * 141 rounds up to
\* 44, of a diagram with two participants and two messages whose texts
\* differ in length.
C11_Witness ==
    /\ Drawn
    /\ layout = DEFAULT_LAYOUT
    /\ ExpectedBH = 44
    /\ Len(participants) = 2
    /\ Len(messages) >= 2
    /\ Len(messages[1].text) # Len(messages[2].text)

\* the ways the display steps of a diagram are replaced in C12
Relabelings == {"none", "zero", "reverse"}

\* the diagram d with the display steps of its messages replaced: none left,
\* all 0, or counting down from the number of messages
relabel(d, how) ==
    [d EXCEPT !.messages =
        [k \in DOMAIN @ |->
            [@[k] EXCEPT !.displayStep =
                CASE how = "none"    -> Undefined
                  [] how = "zero"    -> Some(0)
                  [] how = "reverse" -> Some(Len(d.messages) + 1 - k)]]]

\* an element with its numeral, if it shows one, blanked
withoutNumeral(e) == IF e.part = "numeral" THEN [e EXCEPT !.text = 0] ELSE e

\* C12: the row of a message is at y = 38 + 66 + BH + 44 + (step-1)*stepHeight
\* whatever its display step, and the markup of the same diagram with other
\* display steps has the same canvas and the same elements at the same
\* coordinates, the texts of the numerals excepted.
C12_RowBySequenceIndex ==
    Drawn =>
        /\ Len(MsgStart) = Len(messages)
        /\ \A k \in DOMAIN messages :
              rowYOf(svg[MsgStart[k]]) =
                  Px(38 + 66 + ExpectedBH + 44
                       + (messages[k].step - 1) * layout.stepHeight)
        /\ \A how \in Relabelings :
              LET other == buildSvg(relabel(diagramOf(Locals), how), opts, layout)
              IN  /\ Len(other) = Len(svg)
                  /\ \A j \in DOMAIN svg :
                        withoutNumeral(other[j]) = withoutNumeral(svg[j])

\* C12 witness: markup of a diagram whose second message carries a display
\* step other than its step, so that dropping the display steps changes a
\* numeral of the markup and nothing else.
C12_Witness ==
    /\ Drawn
    /\ Len(messages) >= 2
    /\ IsDefined(messages[2].displayStep)
    /\ Get(messages[2].displayStep) # messages[2].step
    /\ buildSvg(relabel(diagramOf(Locals), "none"), opts, layout) # svg

\* the numerals drawn for the k-th message
NumeralsOf(k) ==
    LET es == MsgElems(k)
    IN  {es[j].text : j \in {j \in DOMAIN es : es[j].part = "numeral"}}

\* C13: every numeral drawn for a message shows the message's display step
\* when it has one, also when that is 0, repeated or out of order, and its
\* step otherwise; at least one numeral is drawn for every message, with the
\* step-number colouring on and off.
C13_NumeralShown ==
    Drawn =>
        /\ Len(MsgStart) = Len(messages)
        /\ \A k \in DOMAIN messages :
              NumeralsOf(k) =
                  { IF messages[k].displayStep # Undefined
                    THEN messages[k].displayStep[1]
                    ELSE messages[k].step }

\* C13 witness: markup without step-number colouring of a diagram in which
\* two messages carry the display step 0, both after a message with a
\* higher display step, and another message carries none.
C13_Witness ==
    /\ Drawn
    /\ ~opts.coloredNumbers
    /\ \E j, k \in DOMAIN messages :
          /\ j < k
          /\ messages[j].displayStep = Some(0)
          /\ messages[k].displayStep = Some(0)
          /\ NumeralsOf(j) = {0}
          /\ NumeralsOf(k) = {0}
          /\ \E h \in 1..(j - 1) :
                IsDefined(messages[h].displayStep)
                  /\ Get(messages[h].displayStep) > 0
    /\ \E k \in DOMAIN messages :
          messages[k].displayStep = Undefined /\ NumeralsOf(k) = {k}

\* the positions within the k-th message's elements of its numbered
\* markers: its numerals, each with the circle under it when there is one
NumeralAt(k, x) ==
    LET es == MsgElems(k)
    IN  {j \in DOMAIN es :
            /\ es[j].part = "numeral"
            /\ es[j].x = x
            /\ es[j].y = rowYOf(es[1]) + Px(1)}

\* C14: for every message, with the step-number colouring on and off, a
\* numbered marker is drawn at the row's y on the source's lifeline and
\* another at the same y at the left margin (x = 22).
C14_MarkerDrawnTwice ==
    Drawn =>
        \A k \in DOMAIN messages :
            /\ k \in DOMAIN MsgStart
            /\ NumeralAt(k, LifelineX(messages[k].from)) # {}
            /\ NumeralAt(k, Px(22)) # {}

\* the colour is one of the palette
InPalette(c) == \E k \in DOMAIN PAL : PAL[k] = c

\* the colour a toggle asks for: the participant's palette colour when the
\* toggle is on, a colour outside the palette when it is off
ToggledColour(on, c, colour) == IF on THEN c = colour ELSE ~InPalette(c)

\* the colour an arrowhead is drawn in: the stroke of an open chevron, the
\* fill of a filled triangle
headColour(e) == IF e.tag = "polyline" THEN e.stroke ELSE e.fill

\* C15: the stroke of a message's line or loop and its arrowhead follow
\* coloredLines, the fill of its label text and of its label pill follow
\* coloredText, the fill of its step markers follows coloredNumbers, each
\* being the palette colour of the message's source when the toggle is on
\* and a colour outside the palette when it is off; the stroke of a lifeline
\* is derived from its participant's palette colour when coloredLines is on
\* and is outside the palette when it is off.
C15_ColoursFromSource ==
    Drawn =>
        /\ Len(MsgStart) = Len(messages)
        /\ \A k \in DOMAIN messages :
              LET es  == MsgElems(k)
                  src == participantOf(participants, messages[k].from).color
              IN  \A j \in DOMAIN es :
                     /\ es[j].part \in {"line", "selfPath"} =>
                            ToggledColour(opts.coloredLines, es[j].stroke, src)
                     /\ es[j].part = "head" =>
                            ToggledColour(opts.coloredLines, headColour(es[j]), src)
                     /\ es[j].part \in {"label", "pill"} =>
                            ToggledColour(opts.coloredText, es[j].fill, src)
                     /\ es[j].part = "marker" =>
                            ToggledColour(opts.coloredNumbers, es[j].fill, src)
        /\ \A k \in DOMAIN participants :
              LET e == svg[positionsOf({"lifeline"}, Len(svg))[k]]
              IN  ToggledColour(opts.coloredLines, e.stroke[1], participants[k].color)

\* C16: every message is drawn through exactly one of the two paths: the
\* loop, when its source id equals its destination id, and the horizontal
\* line otherwise; the loop leaves the source's lifeline at the row's y, runs
\* 50 to the right and 36 down and returns to the lifeline, whatever the
\* layout.
C16_SelfLoopIffSameId ==
    Drawn =>
        /\ Len(MsgStart) = Len(messages)
        /\ \A k \in DOMAIN messages :
              LET e  == svg[MsgStart[k]]
                  fx == LifelineX(messages[k].from)
              IN  /\ (e.part = "selfPath") <=> (messages[k].from = messages[k].to)
                  /\ (e.part = "line") <=> (messages[k].from # messages[k].to)
                  /\ e.part = "selfPath" =>
                        e.d = << <<"M", fx, rowYOf(e)>>, <<"H", fx + Px(50)>>,
                                 <<"V", rowYOf(e) + Px(36)>>, <<"H", fx>> >>
                  /\ e.part = "line" =>
                        e.x1 = fx /\ e.x2 # fx /\ e.y2 = e.y1

\* C16 witness: markup at the largest slider values of a diagram with a
\* self-message of its second participant, drawn as a loop, and a message
\* between two participants, drawn as a line.
C16_Witness ==
    /\ Drawn
    /\ layout = SliderMax
    /\ Len(participants) >= 2
    /\ \E j, k \in DOMAIN messages :
          /\ messages[j].from = messages[j].to
          /\ messages[j].from = participants[2].id
          /\ svg[MsgStart[j]].part = "selfPath"
          /\ messages[k].from # messages[k].to
          /\ svg[MsgStart[k]].part = "line"

\* the points of an arrowhead that lie on neither lifeline: its base
basePoints(h, tx) == {h.points[j] : j \in {j \in DOMAIN h.points : h.points[j][1] # tx}}

\* the line and the arrowhead drawn for the k-th message are those of a
\* message to the right (side = 1) or to the left (side = -1): the tip on
\* the destination's lifeline, the base and the line's end 8 before it
HeadPoints(k, side) ==
    LET e  == svg[MsgStart[k]]
        h  == svg[MsgStart[k] + 1]
        tx == LifelineX(messages[k].to)
    IN  /\ h.part = "head"
        /\ \E j \in DOMAIN h.points : h.points[j] = <<tx, e.y1>>
        /\ Cardinality(basePoints(h, tx)) = 2
        /\ \A p \in basePoints(h, tx) : p[1] = tx - side * Px(8)
        /\ e.x2 = tx - side * Px(8)

\* C17: the arrowhead of a message between two participants has its tip on
\* the destination's lifeline, and its base and the end of the line at tx-8
\* when the destination lies to the right of the source and at tx+8 when it
\* lies to the left; two messages between the same two participants in
\* opposite directions lie in different rows, the later one lower, with
\* arrowheads in opposite directions.
C17_ArrowheadDirection ==
    Drawn =>
        /\ Len(MsgStart) = Len(messages)
        /\ \A k \in DOMAIN messages :
              messages[k].from # messages[k].to =>
                  IF LifelineX(messages[k].to) > LifelineX(messages[k].from)
                  THEN HeadPoints(k, 1) ELSE HeadPoints(k, -1)
        /\ \A j, k \in DOMAIN messages :
              (/\ j < k
               /\ messages[j].from # messages[j].to
               /\ messages[j].from = messages[k].to
               /\ messages[j].to = messages[k].from) =>
                  /\ rowYOf(svg[MsgStart[j]]) < rowYOf(svg[MsgStart[k]])
                  /\ HeadPoints(j, 1) <=> HeadPoints(k, -1)
                  /\ HeadPoints(j, -1) <=> HeadPoints(k, 1)
                  /\ HeadPoints(j, 1) # HeadPoints(j, -1)

\* C17 witness: markup of a diagram whose first message goes from the first
\* column to the second with a filled head and whose second message goes
\* back with an open head.
C17_Witness ==
    /\ Drawn
    /\ Len(messages) >= 2
    /\ Len(participants) = 2
    /\ messages[1].from = participants[1].id
    /\ messages[1].to = participants[2].id
    /\ messages[2].from = participants[2].id
    /\ messages[2].to = participants[1].id
    /\ HeadPoints(1, 1)
    /\ HeadPoints(2, -1)
    /\ svg[MsgStart[1] + 1].tag = "polygon"
    /\ svg[MsgStart[2] + 1].tag = "polyline"

\* the arrow token of a message line
tokenOf(raw) == Get(matchMessage(trim(raw))).arr

\* the token with the other number of heads and the same dashes
otherHeads(arr) ==
    CASE arr = <<"-",">">>         -> <<"-",">",">">>
      [] arr = <<"-",">",">">>     -> <<"-",">">>
      [] arr = <<"-","-",">">>     -> <<"-","-",">",">">>
      [] arr = <<"-","-",">",">">> -> <<"-","-",">">>

\* a message line with its token replaced by otherHeads of it, every other
\* character kept; any other line as it is
swapHeads(raw) ==
    IF lineKind(raw) # "message" THEN raw
    ELSE LET l == trim(raw)
             n == WordRun(l)
             p == n + SpaceRun(Drop(l, n))
         IN  Take(l, p) \o otherHeads(tokenOf(raw)) \o Drop(l, p + Len(tokenOf(raw)))

\* the number of message lines among the first k lines of the text
msgIndex(k) == Cardinality({j \in 1..k : lineKind(code[j]) = "message"})

\* C18: the message of a line with token --> or -->> is "dashed" and that of
\* a line with token -> or ->> is "solid"; the text with the number of heads
\* of every token changed parses to the same diagram and renders to the same
\* markup.
C18_ArrowStyleByDashes ==
    /\ \A k \in Processed :
          lineKind(code[k]) = "message" =>
              /\ tokenOf(code[k]) \in {<<"-","-",">">>, <<"-","-",">",">">>}
                     => messages[msgIndex(k)].arrow = "dashed"
              /\ tokenOf(code[k]) \in {<<"-",">">>, <<"-",">",">">>}
                     => messages[msgIndex(k)].arrow = "solid"
    /\ pc \in {"parsed", "rendered"} =>
          LET swapped == [k \in DOMAIN code |-> swapHeads(code[k])]
              other   == diagramOf(parseFrom(parseLocals, swapped))
          IN  /\ \A k \in DOMAIN code :
                    lineKind(code[k]) = "message" =>
                        /\ lineKind(swapped[k]) = "message"
                        /\ tokenOf(swapped[k]) = otherHeads(tokenOf(code[k]))
              /\ other = diagramOf(Locals)
              /\ pc = "rendered" => buildSvg(other, opts, layout) = svg

\* C18 witness: markup of a text whose four message lines carry the four
\* tokens, two of them drawn dashed and two solid.
C18_Witness ==
    /\ Drawn
    /\ {tokenOf(code[k]) : k \in {k \in DOMAIN code : lineKind(code[k]) = "message"}}
          = {ArrowTokens[k] : k \in DOMAIN ArrowTokens}
    /\ Cardinality({k \in DOMAIN messages : messages[k].arrow = "dashed"}) = 2
    /\ Cardinality({k \in DOMAIN messages : messages[k].arrow = "solid"}) = 2

\* the value of a string of decimal digits
RECURSIVE decimalOf(_)
decimalOf(ds) ==
    IF ds = <<>> THEN 0
    ELSE 10 * decimalOf(Take(ds, Len(ds) - 1)) + DigitVal(ds[Len(ds)])

\* s starts with one or more digits, a dot and a whitespace character
HasStepPrefix(s) ==
    \E n \in 1..Len(s) :
        /\ \A j \in 1..n : IsDigit(s[j])
        /\ Len(s) >= n + 2
        /\ s[n + 1] = "."
        /\ IsSpace(s[n + 2])

\* the number of digits s starts with
prefixDigits(s) == CHOOSE n \in 0..Len(s) :
    /\ \A j \in 1..n : IsDigit(s[j])
    /\ n < Len(s) => ~IsDigit(s[n + 1])

\* C19: for the message of a processed message line, with cleaned the line's
\* raw text after each line-break tag is replaced by a space and the result
\* trimmed: if cleaned starts with digits, a dot and whitespace, displayStep
\* is the decimal value of the digits and the text is what follows the dot,
\* trimmed; otherwise displayStep is absent and the text is cleaned. The
\* step is the message's position among the message lines in both cases.
C19_TextPreprocessing ==
    \A k \in Processed :
        lineKind(code[k]) = "message" =>
            LET m       == messages[msgIndex(k)]
                cleaned == trim(replaceBr(Get(matchMessage(trim(code[k]))).rawText))
                n       == prefixDigits(cleaned)
            IN  /\ m.step = msgIndex(k)
                /\ IF HasStepPrefix(cleaned)
                   THEN /\ m.displayStep = Some(decimalOf(Take(cleaned, n)))
                        /\ m.text = trim(Drop(cleaned, n + 1))
                   ELSE /\ m.displayStep = Undefined
                        /\ m.text = cleaned

\* C19 witness: a finished parse of a text whose first message had a
\* line-break tag before its display step 07 and another inside its text,
\* and whose second message had digits and a dot but no whitespace left
\* after them once its line-break tag was replaced and the text trimmed.
C19_Witness ==
    /\ pc = "parsed"
    /\ Len(messages) = 2
    /\ code = <<L_brs, L_brOnly>>
    /\ messages[1].displayStep = Some(7)
    /\ messages[1].text = <<"p", " ", "q">>
    /\ messages[1].step = 1
    /\ messages[2].displayStep = Undefined
    /\ messages[2].text = <<"4", ".">>
    /\ messages[2].step = 2

\* the y coordinates of an arrowhead's points
headYs(h) == {h.points[j][2] : j \in DOMAIN h.points}

\* the closed intervals [a1, a2] and [b1, b2] have a point in common
Intersect(a1, a2, b1, b2) == a1 <= b2 /\ b1 <= a2

\* the greatest and the least member of a non-empty set of integers
MaxOf(S) == CHOOSE x \in S : \A y \in S : y <= x
MinOf(S) == CHOOSE x \in S : \A y \in S : x <= y

\* C20: at the default layout, the vertical extent of a self-message's loop
\* and arrowhead, from its row's y down to the lowest point of its
\* arrowhead (y+41), has no point in common with the vertical extent of the
\* arrowhead (y'-5 to y'+5) of a message between two participants in the
\* row before or the row after.
C20_SelfLoopClearOfNeighbours ==
    (Drawn /\ layout = DEFAULT_LAYOUT) =>
        \A k \in DOMAIN messages : \A j \in {k - 1, k + 1} \cap DOMAIN messages :
            (/\ svg[MsgStart[k]].part = "selfPath"
             /\ svg[MsgStart[j]].part = "line") =>
                LET loopTop == rowYOf(svg[MsgStart[k]])
                    loopBottom == MaxOf(headYs(svg[MsgStart[k] + 1]))
                    hs == headYs(svg[MsgStart[j] + 1])
                IN  ~Intersect(loopTop, loopBottom, MinOf(hs), MaxOf(hs))

\* ------------------------------------------- claims on results and lines

\* C21: every Diagram returned so far holds, seen through its references,
\* the participants, messages and title it held when it was returned; a call
\* of buildSvg changes neither the Diagram it is given nor any returned one;
\* and every invocation of parse starts from two empty arrays that no
\* returned Diagram refers to.
C21_NoMutation ==
    /\ [](\A k \in DOMAIN returned : returned[k].now = returned[k].diagram)
    /\ [][(pc = "parsed" /\ pc' = "rendered") =>
             UNCHANGED <<participants, messages, title, lists, returned>>]_vars
    /\ [][(pc = "rendered" /\ pc' = "parse") =>
             /\ participants' = <<>>
             /\ messages' = <<>>
             /\ \A k \in DOMAIN returned : returned[k].lists # lists']_vars

\* C21 witness: a third invocation has returned and its Diagram has been
\* rendered, while the first Diagram returned, of other participants and
\* messages, is as it was returned.
C21_Witness ==
    /\ pc = "rendered"
    /\ Len(returned) = 3
    /\ returned[1].now = returned[1].diagram
    /\ returned[1].diagram.messages # <<>>
    /\ returned[1].diagram # returned[3].diagram
    /\ returned[1].lists # returned[3].lists

\* the arrowhead of the k-th message drawn is a filled triangle
FilledHead(k) ==
    LET h == svg[MsgStart[k] + 1]
    IN  h.part = "head" /\ h.tag = "polygon" /\ h.fill # "none"

\* the arrowhead of the k-th message drawn is an open chevron
OpenHead(k) ==
    LET h == svg[MsgStart[k] + 1]
    IN  h.part = "head" /\ h.tag = "polyline" /\ h.fill = "none"

\* C22 as stated: the arrowhead of every message, self-messages included,
\* is an open chevron when the message is dashed and a filled triangle when
\* it is solid.
C22_HeadFollowsStyle ==
    Drawn =>
        /\ Len(MsgStart) = Len(messages)
        /\ \A k \in DOMAIN messages :
              IF messages[k].arrow = "dashed" THEN OpenHead(k) ELSE FilledHead(k)

\* C22 amended: the arrowhead of a message between two participants is an
\* open chevron when the message is dashed and a filled triangle when it is
\* solid, in both directions; the arrowhead of a self-message is a filled
\* triangle whether the message is dashed or solid.
C22_HeadFollowsStyleAcross ==
    Drawn =>
        /\ Len(MsgStart) = Len(messages)
        /\ \A k \in DOMAIN messages :
              IF messages[k].from = messages[k].to THEN FilledHead(k)
              ELSE IF messages[k].arrow = "dashed" THEN OpenHead(k)
              ELSE FilledHead(k)

\* C22 witness: markup of a diagram with a dashed self-message, whose head
\* is filled, a dashed message to the left with an open head and a solid
\* message to the right with a filled head.
C22_Witness ==
    /\ Drawn
    /\ \E j, k, h \in DOMAIN messages :
          /\ messages[j].from = messages[j].to
          /\ messages[j].arrow = "dashed"
          /\ FilledHead(j)
          /\ messages[k].from # messages[k].to
          /\ messages[k].arrow = "dashed"
          /\ LifelineX(messages[k].to) < LifelineX(messages[k].from)
          /\ OpenHead(k)
          /\ messages[h].from # messages[h].to
          /\ messages[h].arrow = "solid"
          /\ LifelineX(messages[h].to) > LifelineX(messages[h].from)
          /\ FilledHead(h)

\* the participants list holds a participant of the given id
Registered(id) == \E j \in DOMAIN participants : participants[j].id = id

\* C23: in every state of the parse and in the returned Diagram, the source
\* and the destination of every message are ids of participants of the
\* list, so that the lookups of the two ids in buildSvg find a column.
C23_EndpointsRegistered ==
    \A k \in DOMAIN messages :
        Registered(messages[k].from) /\ Registered(messages[k].to)

\* C23 witness: in the middle of a parse, right after a message line has
\* registered both its ids, no declaration having been processed and a
\* further line remaining.
C23_Witness ==
    /\ pc = "parse"
    /\ i = 2
    /\ i <= Len(code)
    /\ lineKind(code[1]) = "message"
    /\ Len(messages) = 1
    /\ Len(participants) = 2
    /\ messages[1].from = participants[1].id
    /\ messages[1].to = participants[2].id

\* the trimmed line begins with one of the five skip markers
BeginsWithMarker(l) ==
    \/ StartsWith(l, <<"%","%">>)
    \/ StartsWith(l, <<"s","e","q","u","e","n","c","e","D","i","a","g","r","a","m">>)
    \/ StartsWith(l, <<"a","u","t","o","n","u","m","b","e","r">>)
    \/ StartsWith(l, <<"-","-","-">>)
    \/ StartsWith(l, <<BackTick, BackTick, BackTick>>)

\* C24: the iteration of the loop on a line that begins with a skip marker
\* changes no participant, message, title or counter, also when the whole
\* line matches the message or the participant grammar; the iteration on a
\* line that matches the title directive sets the title and changes no
\* participant, message or counter.
C24_FirstMatchWins ==
    [][(pc = "parse" /\ i \in DOMAIN code) =>
          LET l == trim(code[i])
          IN  /\ BeginsWithMarker(l) =>
                    UNCHANGED <<participants, messages, title, step, ci>>
              /\ (~BeginsWithMarker(l) /\ IsDefined(matchTitle(l))) =>
                    /\ UNCHANGED <<participants, messages, step, ci>>
                    /\ title' = Some(trim(Get(matchTitle(l))))]_vars

\* C24 witness: a finished parse of a text with a line that begins with
\* `autonumber` and as a whole matches the message grammar, and with a
\* message line; only the ids of the latter are participants.
C24_Witness ==
    /\ pc = "parsed"
    /\ \E k \in DOMAIN code :
          /\ BeginsWithMarker(trim(code[k]))
          /\ IsDefined(matchMessage(trim(code[k])))
          /\ ~Registered(Get(matchMessage(trim(code[k]))).fId)
    /\ Len(messages) = 1
    /\ Len(participants) = 2

\* ------------------------------------------------- claims on the component

\* C25: after any sequence of zoom-changing operations (wheel with ctrl or
\* meta, two-finger pinch, the minus and plus buttons, the preset buttons,
\* Fit, the automatic fit of the first render and of a panel toggle) the
\* zoom factor is within [0.2, 3].
C25_ZoomInRange == zoom >= 200 /\ zoom <= 3000

\* C26: whatever the interleaving of clicks on the code button, on the
\* settings button, on the close and Done buttons and of resize events, the
\* full-screen code editor and the settings sheet are never both open while
\* the window is mobile.
C26_OnePanelOnMobile == ~(isMobile /\ showCode /\ showSettings)

\* what localStorage can hold at load: for the code nothing, the empty
\* string the component stores once the editor is cleared, or a text; for
\* the options and the layout nothing, some of the fields or all of them
StoredCodes == { Undefined, Some(<< <<>> >>), Some(<<L_msgAB, L_msgBA>>) }
StoredOpts == { Undefined, Some([coloredText |-> FALSE]), Some(PlainOpts) }
StoredLayouts == { Undefined, Some([stepHeight |-> 58]), Some(EXPORT_LAYOUT) }

\* a later visit on the desktop
InitLoad ==
    /\ InitComponent
    /\ viewport = <<1280, 720>>
    /\ \E c \in StoredCodes, o \in StoredOpts, l \in StoredLayouts :
          storage = [code |-> c, opts |-> o, layout |-> l]

SpecLoad == InitLoad /\ [][Lifecycle]_vars

\* the value the claim expects the first write of key k to store over was
expectedWrite(k, was) ==
    IF k = "code" THEN Get(was)
    ELSE IF k = "opts" THEN merge(DEFAULT_OPTS, Get(was))
    ELSE merge(DEFAULT_LAYOUT, Get(was))

\* C27: on load the persist effects write to storage only once the component
\* is mounted, and the first value written for each key is the stored value
\* (merged over the defaults for the options and the layout) whenever a
\* value was stored, never the default alone.
C27_StoredValuesKept ==
    /\ ~mounted => \A k \in StorageKeys : ~IsDefined(firstWritten[k])
    /\ \A k \in StorageKeys :
          (IsDefined(firstWritten[k]) /\ IsDefined(Get(firstWritten[k]).was))
              => Get(firstWritten[k]).wrote = expectedWrite(k, Get(firstWritten[k]).was)

\* setTimeout(() => setCopied(false), 1500) left out
armResetNever(t) == t

\* setTimeout(() => setCopied(false), 1500): one more pending timer
armReset(t) == t + 1

\* a Copy button: of the desktop code panel, of the mobile code editor or of
\* the settings; navigator.clipboard.writeText(code) returns a promise
copyCode ==
    /\ Handled
    /\ showCode \/ showSettings
    /\ clipWrites' = clipWrites + 1
    /\ UNCHANGED <<machine, mounted, isMobile, showCode, showSettings, copied, hasFit,
                   fitActive, zoom, pinch, panelFrame, viewport, storage, synced,
                   firstWritten, timers>>

\* the promise of a write is fulfilled: setCopied(true) and the timer
WriteDone ==
    /\ clipWrites > 0
    /\ clipWrites' = clipWrites - 1
    /\ copied' = TRUE
    /\ timers' = armReset(timers)
    /\ UNCHANGED <<machine, mounted, isMobile, showCode, showSettings, hasFit, fitActive,
                   zoom, pinch, panelFrame, viewport, storage, synced, firstWritten,
                   events>>

\* the promise of a write is rejected: there is no handler for it
WriteFailed ==
    /\ clipWrites > 0
    /\ clipWrites' = clipWrites - 1
    /\ UNCHANGED <<machine, mounted, isMobile, showCode, showSettings, copied, hasFit,
                   fitActive, zoom, pinch, panelFrame, viewport, storage, synced,
                   firstWritten, timers, events>>

\* a timer fires: setCopied(false)
ResetCopied ==
    /\ timers > 0
    /\ timers' = timers - 1
    /\ copied' = FALSE
    /\ UNCHANGED <<machine, mounted, isMobile, showCode, showSettings, hasFit, fitActive,
                   zoom, pinch, panelFrame, viewport, storage, synced, firstWritten,
                   clipWrites, events>>

NextCopy ==
    \/ Lifecycle
    \/ PanelFit \/ ClickCode \/ ClickSettings \/ CloseCode \/ CloseSettings
    \/ copyCode \/ WriteDone \/ WriteFailed \/ ResetCopied

\* the browser settles every promise and fires every timer
SpecCopy ==
    /\ InitShell
    /\ [][NextCopy]_vars
    /\ WF_vars(WriteDone \/ WriteFailed)
    /\ WF_vars(ResetCopied)

\* C28: every reset timer is scheduled by a settling clipboard write that
\* leaves the copied indicator true, a reset only ever sets the indicator
\* to false, a true indicator always has a reset pending, a true indicator
\* becomes false again, and once no further copy is issued the indicator
\* returns to false and stays false.
C28_CopiedResets ==
    /\ [][timers' > timers => (copied' /\ clipWrites' < clipWrites)]_vars
    /\ [][timers' < timers => ~copied']_vars
    /\ [](copied => timers > 0)
    /\ (copied ~> ~copied)
    /\ <>[](~copied)

\* C28 witness: two copies were issued from an open panel and both writes
\* have succeeded: the indicator is true and two resets are pending.
C28_Witness ==
    /\ showCode \/ showSettings
    /\ clipWrites = 0
    /\ copied
    /\ timers = 2

====
